---------------------------- MODULE Spec2Model ----------------------------
(***************************************************************************)
(* A model of tony-montemuro/http: the HTTP/1.0 request pipeline           *)
(* (parse.go, uri.go, internal/lws, internal/constructs) and the           *)
(* connection handler (server.go).                                         *)
(*                                                                         *)
(* Byte strings are sequences of octets 0..255.  Go indices are 0-based;   *)
(* At(s, i) is Go's s[i] and Slice(s, a, b) is Go's s[a:b].                *)
(***************************************************************************)
EXTENDS Integers, Sequences, FiniteSets, TLC

-----------------------------------------------------------------------------
(* Go built-ins and standard-library helpers, by their documented meaning. *)

At(s, i) == s[i + 1]

Slice(s, a, b) == SubSeq(s, a + 1, b)

SliceFrom(s, a) == SubSeq(s, a + 1, Len(s))

MinOf(S) == CHOOSE x \in S : \A y \in S : x <= y

\* bytes.Index / strings.Index: first 0-based index of sep in s, or -1.
Index(s, sep) ==
    LET hits == {i \in 0..(Len(s) - Len(sep)) : SubSeq(s, i + 1, i + Len(sep)) = sep}
    IN  IF hits = {} THEN -1 ELSE MinOf(hits)

\* bytes.IndexByte
IndexByte(s, b) == Index(s, <<b>>)

HasSuffix(s, suffix) ==
    /\ Len(s) >= Len(suffix)
    /\ SubSeq(s, Len(s) - Len(suffix) + 1, Len(s)) = suffix

HasPrefix(s, prefix) ==
    /\ Len(s) >= Len(prefix)
    /\ SubSeq(s, 1, Len(prefix)) = prefix

\* bytes.Split / strings.Split on a one-byte separator: always at least one part.
RECURSIVE Split(_, _)
Split(s, b) ==
    LET i == IndexByte(s, b)
    IN  IF i = -1 THEN <<s>>
        ELSE <<Slice(s, 0, i)>> \o Split(SliceFrom(s, i + 1), b)

\* bytes.SplitN / strings.SplitN with n = 2.
SplitN2(s, b) ==
    LET i == IndexByte(s, b)
    IN  IF i = -1 THEN <<s>> ELSE <<Slice(s, 0, i), SliceFrom(s, i + 1)>>

\* bytes.Trim(s, cutset): leading and trailing bytes of the cutset removed.
RECURSIVE TrimLeftCutset(_, _)
TrimLeftCutset(s, cutset) ==
    IF Len(s) > 0 /\ s[1] \in cutset THEN TrimLeftCutset(Tail(s), cutset) ELSE s

RECURSIVE TrimRightCutset(_, _)
TrimRightCutset(s, cutset) ==
    IF Len(s) > 0 /\ s[Len(s)] \in cutset
    THEN TrimRightCutset(SubSeq(s, 1, Len(s) - 1), cutset)
    ELSE s

BytesTrim(s, cutset) == TrimRightCutset(TrimLeftCutset(s, cutset), cutset)

\* bytes.Join
RECURSIVE Join(_, _)
Join(parts, sep) ==
    IF Len(parts) = 0 THEN <<>>
    ELSE IF Len(parts) = 1 THEN parts[1]
    ELSE parts[1] \o sep \o Join(Tail(parts), sep)

\* A Go map as a function; m[k] = v.
MapPut(m, k, v) == [x \in (DOMAIN m) \cup {k} |-> IF x = k THEN v ELSE m[x]]

EmptyMap == [x \in {} |-> <<>>]

-----------------------------------------------------------------------------
(* internal/lws                                                            *)

SP == 32
HT == 9
CR == 13
LF == 10

Crlf == <<CR, LF>>

RECURSIVE ScanSpHt(_, _)
ScanSpHt(s, max) ==
    IF max < Len(s) /\ (At(s, max) = SP \/ At(s, max) = HT)
    THEN ScanSpHt(s, max + 1)
    ELSE max

\* getMinAndMax(s, i): <<min, max>>
getMinAndMax(s, i) ==
    LET min == IF At(s, i) = CR THEN i + 1 + 2 ELSE i + 1
    IN  [min |-> min, max |-> ScanSpHt(s, min)]

\* Check as it would be if it did not look at the byte after a CR.
CheckWithoutLfTest(s, i) ==
    IF i >= Len(s) THEN [isLws |-> FALSE, next |-> i]
    ELSE IF At(s, i) # SP /\ At(s, i) # HT /\ At(s, i) # CR
         THEN [isLws |-> FALSE, next |-> i]
    ELSE IF At(s, i) = CR /\ i + 2 >= Len(s)
         THEN [isLws |-> FALSE, next |-> i]
    ELSE IF At(s, i) = CR /\ At(s, i + 2) # SP /\ At(s, i + 2) # HT
         THEN [isLws |-> FALSE, next |-> i]
    ELSE [isLws |-> TRUE, next |-> getMinAndMax(s, i).max]

Check(s, i) ==
    IF i >= Len(s) THEN [isLws |-> FALSE, next |-> i]
    ELSE IF At(s, i) # SP /\ At(s, i) # HT /\ At(s, i) # CR
         THEN [isLws |-> FALSE, next |-> i]
    ELSE IF At(s, i) = CR /\ i + 2 >= Len(s)
         THEN [isLws |-> FALSE, next |-> i]
    ELSE IF At(s, i) = CR /\ At(s, i + 1) # LF
         THEN [isLws |-> FALSE, next |-> i]
    ELSE IF At(s, i) = CR /\ At(s, i + 2) # SP /\ At(s, i + 2) # HT
         THEN [isLws |-> FALSE, next |-> i]
    ELSE [isLws |-> TRUE, next |-> getMinAndMax(s, i).max]

\* NewLine as it would be if it did not look at the byte after the CRLF.
NewLineWithoutSpaceTest(s, i) ==
    IF i + 2 >= Len(s) THEN [isLws |-> FALSE, start |-> i, end |-> i]
    ELSE IF At(s, i) # CR \/ At(s, i + 1) # LF
         THEN [isLws |-> FALSE, start |-> i, end |-> i]
    ELSE LET mm == getMinAndMax(s, i)
         IN  [isLws |-> TRUE, start |-> mm.min, end |-> mm.max]

NewLine(s, i) ==
    IF i + 2 >= Len(s) THEN [isLws |-> FALSE, start |-> i, end |-> i]
    ELSE IF At(s, i) # CR \/ At(s, i + 1) # LF
         THEN [isLws |-> FALSE, start |-> i, end |-> i]
    ELSE IF At(s, i + 2) # SP /\ At(s, i + 2) # HT
         THEN [isLws |-> FALSE, start |-> i, end |-> i]
    ELSE LET mm == getMinAndMax(s, i)
         IN  [isLws |-> TRUE, start |-> mm.min, end |-> mm.max]

RECURSIVE TrimLeftLoop(_, _, _)
TrimLeftLoop(s, i, first) ==
    IF i < first
    THEN LET c == Check(s, i)
         IN  TrimLeftLoop(s, c.next, IF c.isLws THEN first ELSE i)
    ELSE first

RECURSIVE TrimRightLoop(_, _, _)
TrimRightLoop(s, i, last) ==
    IF i < Len(s)
    THEN LET c == Check(s, i)
         IN  IF c.isLws THEN TrimRightLoop(s, c.next, last)
             ELSE TrimRightLoop(s, i + 1, i)
    ELSE last

\* TrimRight as it would be if it also removed a CRLF at the end.
TrimRightAlsoCrlf(s) ==
    IF HasSuffix(Slice(s, 0, TrimRightLoop(s, 0, -1) + 1), Crlf)
    THEN Slice(s, 0, TrimRightLoop(s, 0, -1) + 1 - Len(Crlf))
    ELSE Slice(s, 0, TrimRightLoop(s, 0, -1) + 1)

TrimRight(s) == Slice(s, 0, TrimRightLoop(s, 0, -1) + 1)

\* TrimLeft as it would be if it also dropped trailing LWS.
TrimLeftAlsoRight(s) == TrimRight(SliceFrom(s, TrimLeftLoop(s, 0, Len(s))))

TrimLeft(s) == SliceFrom(s, TrimLeftLoop(s, 0, Len(s)))

Trim(s) == TrimRight(TrimLeft(s))

-----------------------------------------------------------------------------
(* internal/constructs: byte classes                                       *)

IsEscape(b) == b = 37

IsAlpha(b) == (b >= 97 /\ b <= 122) \/ (b >= 65 /\ b <= 90)

IsNumeric(b) == b >= 48 /\ b <= 57

\* ';', '/', '?', ':', '@', '&', '=', '+'
IsReserved(b) == b \in {59, 47, 63, 58, 64, 38, 61, 43}

\* '$', '-', '_', '.'
IsSafe(b) == b \in {36, 45, 95, 46}

\* '!', '*', '\'', '(', ')', ','
IsExtra(b) == b \in {33, 42, 39, 40, 41, 44}

IsControl(b) == b < 32 \/ b = 127

\* CTL or ' ', '"', '#', '%', '<', '>'
IsUnsafe(b) == IsControl(b) \/ b \in {32, 34, 35, 37, 60, 62}

IsUSAscii(b) == b < 128

IsQdTextByte(b) == IsUSAscii(b) /\ ~IsControl(b) /\ b # 34

\* '(', ')', '<', '>', '@', ',', ';', ':', '\\', '"', '/', '[', ']', '?', '=', ' ', '\t'
IsTSpecial(b) ==
    b \in {40, 41, 60, 62, 64, 44, 59, 58, 92, 34, 47, 91, 93, 63, 61, 32, 9}

IsUnreserved(b) ==
    IsAlpha(b) \/ IsNumeric(b) \/ IsSafe(b) \/ IsExtra(b)
        \/ (~IsReserved(b) /\ ~IsUnsafe(b))

\* IsPChar as it would be if it also held of the control characters.
IsPCharOrControl(b) ==
    IsUnreserved(b) \/ IsEscape(b) \/ b \in {58, 64, 38, 61, 43} \/ IsControl(b)

\* unreserved, '%', or one of ':', '@', '&', '=', '+'
IsPChar(b) == IsUnreserved(b) \/ IsEscape(b) \/ b \in {58, 64, 38, 61, 43}

\* Hex.Value: -1 stands for the error return.
HexValue(b) ==
    IF b >= 48 /\ b <= 57 THEN b - 48
    ELSE IF b >= 97 /\ b <= 102 THEN b - 97 + 10
    ELSE IF b >= 65 /\ b <= 70 THEN b - 65 + 10
    ELSE -1

-----------------------------------------------------------------------------
(* internal/constructs: grammar primitives                                 *)

IsCont(b) == b >= 128 /\ b <= 191

\* Number of bytes of the UTF-8 encoding that starts at 0-based index i of t,
\* as `for _, c := range t` decodes it; 0 when the bytes there are not a
\* valid encoding (the loop then yields U+FFFD and advances one byte).
RuneWidth(t, i) ==
    LET b1 == At(t, i)
        n  == Len(t) - i
        b2 == IF n >= 2 THEN At(t, i + 1) ELSE 0
        b3 == IF n >= 3 THEN At(t, i + 2) ELSE 0
        b4 == IF n >= 4 THEN At(t, i + 3) ELSE 0
    IN  IF b1 < 128 THEN 1
        ELSE IF b1 >= 194 /\ b1 <= 223
             THEN IF n >= 2 /\ IsCont(b2) THEN 2 ELSE 0
        ELSE IF b1 >= 224 /\ b1 <= 239
             THEN IF /\ n >= 3
                     /\ b2 >= (IF b1 = 224 THEN 160 ELSE 128)
                     /\ b2 <= (IF b1 = 237 THEN 159 ELSE 191)
                     /\ IsCont(b3)
                  THEN 3 ELSE 0
        ELSE IF b1 >= 240 /\ b1 <= 244
             THEN IF /\ n >= 4
                     /\ b2 >= (IF b1 = 240 THEN 144 ELSE 128)
                     /\ b2 <= (IF b1 = 244 THEN 143 ELSE 191)
                     /\ IsCont(b3)
                     /\ IsCont(b4)
                  THEN 4 ELSE 0
        ELSE 0

\* HttpByte(c) for the rune c of width w decoded at index i: the rune's low
\* eight bits (U+FFFD when the bytes are not a valid encoding).
RuneLowByte(t, i, w) ==
    IF w = 1 THEN At(t, i)
    ELSE IF w = 0 THEN 253
    ELSE (At(t, i + w - 2) % 4) * 64 + (At(t, i + w - 1) % 64)

\* The sequence HttpByte(c) for c ranging over the runes of t from index i;
\* RuneStep is one turn of the loop, on a rune of width w.
RECURSIVE RuneBytes(_, _)
RECURSIVE RuneStep(_, _, _)
RuneStep(t, i, w) ==
    <<RuneLowByte(t, i, w)>> \o RuneBytes(t, i + (IF w = 0 THEN 1 ELSE w))

RuneBytes(t, i) ==
    IF i >= Len(t) THEN <<>> ELSE RuneStep(t, i, RuneWidth(t, i))

\* The bytes of a sequence, as a set.
Range(s) == {s[k] : k \in 1..Len(s)}

\* ValidateToken(t) = nil
ValidateToken(t) ==
    /\ Len(t) # 0
    /\ \A b \in Range(RuneBytes(t, 0)) :
           ~IsControl(b) /\ IsUSAscii(b) /\ ~IsTSpecial(b)

\* The loop shared by ValidateText and validateHeaderValue: TRUE when no
\* control character is met outside an LWS sequence.
RECURSIVE TextLoop(_, _)
TextLoop(t, i) ==
    IF i < Len(t)
    THEN LET c == Check(t, i)
         IN  IF c.isLws THEN TextLoop(t, c.next)
             ELSE IF IsControl(At(t, i)) THEN FALSE
             ELSE TextLoop(t, i + 1)
    ELSE TRUE

\* ValidateText(t) = nil
ValidateText(t) == TextLoop(t, 0)

\* validateQdText(t) = nil, from index i on; c is what lws.Check returned
\* there.
RECURSIVE qdTextLoop(_, _)
RECURSIVE qdTextStep(_, _, _)
qdTextStep(t, i, c) ==
    IF c.isLws THEN qdTextLoop(t, c.next)
    ELSE IsQdTextByte(At(t, i)) /\ qdTextLoop(t, i + 1)

qdTextLoop(t, i) == i >= Len(t) \/ qdTextStep(t, i, Check(t, i))

validateQdText(t) == qdTextLoop(t, 0)

\* validateQuotedString(qs) = nil
validateQuotedString(qs) ==
    /\ Len(qs) >= 2
    /\ At(qs, 0) = 34
    /\ At(qs, Len(qs) - 1) = 34
    /\ validateQdText(Slice(qs, 1, Len(qs) - 1))

\* ParseQuotedString(qs): (string, err = nil)
ParseQuotedString(qs) ==
    IF ~validateQuotedString(qs) THEN [ok |-> FALSE, s |-> qs]
    ELSE [ok |-> TRUE, s |-> Slice(qs, 1, Len(qs) - 1)]

\* ParseUserQuotedString(s): (string, err = nil)
ParseUserQuotedString(s) ==
    IF validateQdText(s) THEN [ok |-> TRUE, s |-> <<34>> \o s \o <<34>>]
    ELSE IF validateQuotedString(s) THEN [ok |-> TRUE, s |-> s]
    ELSE [ok |-> FALSE, s |-> <<>>]

\* ParseWord(w): (string, err = nil)
ParseWord(w) ==
    IF ValidateToken(w) THEN [ok |-> TRUE, s |-> w]
    ELSE IF ParseQuotedString(w).ok THEN [ok |-> TRUE, s |-> ParseQuotedString(w).s]
    ELSE [ok |-> FALSE, s |-> <<>>]

\* A time.Time: the zero Time, or an instant (Unix seconds) with its zone name.
ZeroTime == [zero |-> TRUE, unix |-> 0, zone |-> "UTC"]

TimeAt(u, z) == [zero |-> FALSE, unix |-> u, zone |-> z]

\* "Sun, 06 Nov 1994 08:49:37 GMT"
DateRfc1123 ==
    <<83, 117, 110, 44, 32, 48, 54, 32, 78, 111, 118, 32, 49, 57, 57, 52, 32,
      48, 56, 58, 52, 57, 58, 51, 55, 32, 71, 77, 84>>

\* "Sunday, 06-Nov-94 08:49:37 GMT"
DateRfc850 ==
    <<83, 117, 110, 100, 97, 121, 44, 32, 48, 54, 45, 78, 111, 118, 45, 57, 52,
      32, 48, 56, 58, 52, 57, 58, 51, 55, 32, 71, 77, 84>>

\* "Sun Nov  6 08:49:37 1994"
DateAnsic ==
    <<83, 117, 110, 32, 78, 111, 118, 32, 32, 54, 32, 48, 56, 58, 52, 57, 58,
      51, 55, 32, 49, 57, 57, 52>>

\* "Mon, 07 Nov 1994 08:49:37 GMT"
DateNextDay ==
    <<77, 111, 110, 44, 32, 48, 55, 32, 78, 111, 118, 32, 49, 57, 57, 52, 32,
      48, 56, 58, 52, 57, 58, 51, 55, 32, 71, 77, 84>>

\* "Sun, 06 Nov 1994 08:49:37 EST"
DateEst ==
    <<83, 117, 110, 44, 32, 48, 54, 32, 78, 111, 118, 32, 49, 57, 57, 52, 32,
      48, 56, 58, 52, 57, 58, 51, 55, 32, 69, 83, 84>>

\* time.Parse(layout, d) on the date strings above: what Go's parser returns
\* for each (a zone abbreviation unknown to the UTC location gives a
\* fabricated zone of that name; ANSIC carries no zone and parses as UTC).
\* Every other string of the model's inputs holds no digit and is refused
\* by all three layouts.
timeParse(layout, d) ==
    CASE layout = "RFC850" /\ d = DateRfc850 ->
             [ok |-> TRUE, time |-> TimeAt(784111777, "GMT")]
      [] layout = "RFC1123" /\ d = DateRfc1123 ->
             [ok |-> TRUE, time |-> TimeAt(784111777, "GMT")]
      [] layout = "RFC1123" /\ d = DateNextDay ->
             [ok |-> TRUE, time |-> TimeAt(784198177, "GMT")]
      [] layout = "RFC1123" /\ d = DateEst ->
             [ok |-> TRUE, time |-> TimeAt(784111777, "EST")]
      [] layout = "ANSIC" /\ d = DateAnsic ->
             [ok |-> TRUE, time |-> TimeAt(784111777, "UTC")]
      [] OTHER -> [ok |-> FALSE, time |-> ZeroTime]

\* The end of ParseDate: the checks on the date the three layouts left.
checkedDate(date) ==
    IF date.zero THEN [ok |-> FALSE, date |-> date]
    ELSE IF date.zone # "GMT" THEN [ok |-> FALSE, date |-> date]
    ELSE [ok |-> TRUE, date |-> date]

\* ParseDate(d): (date, err = nil).  The layouts are tried in the order
\* RFC850, RFC1123, ANSIC and the last one that parses gives the date.
ParseDate(d) ==
    checkedDate(
        IF timeParse("ANSIC", d).ok
        THEN [timeParse("ANSIC", d).time EXCEPT !.zone = "GMT"]
        ELSE IF timeParse("RFC1123", d).ok THEN timeParse("RFC1123", d).time
        ELSE IF timeParse("RFC850", d).ok THEN timeParse("RFC850", d).time
        ELSE ZeroTime)

-----------------------------------------------------------------------------
(* strconv and strings helpers                                             *)

RECURSIVE StripZeros(_)
StripZeros(s) == IF Len(s) > 0 /\ s[1] = 48 THEN StripZeros(Tail(s)) ELSE s

RECURSIVE DigitsValue(_)
DigitsValue(s) ==
    IF Len(s) = 0 THEN 0
    ELSE DigitsValue(SubSeq(s, 1, Len(s) - 1)) * 10 + (s[Len(s)] - 48)

\* "18446744073709551615", the largest uint64
MaxUint64Digits ==
    <<49, 56, 52, 52, 54, 55, 52, 52, 48, 55, 51, 55, 48, 57, 53, 53, 49, 54,
      49, 53>>

RECURSIVE LexGreater(_, _)
LexGreater(a, b) ==
    IF Len(a) = 0 THEN FALSE
    ELSE IF a[1] # b[1] THEN a[1] > b[1]
    ELSE LexGreater(Tail(a), Tail(b))

\* Values of 10^9 and above are all represented by 10^9: the model compares
\* a Content-Length only with caps far below it.
UintSaturated == 1000000000

\* strconv.ParseUint(data, 10, 64)
ParseUint(data) ==
    LET sig == StripZeros(data)
    IN  IF Len(data) = 0 \/ \E k \in 1..Len(data) : ~IsNumeric(data[k])
        THEN [ok |-> FALSE, n |-> 0]
        ELSE IF Len(sig) > 20 \/ (Len(sig) = 20 /\ LexGreater(sig, MaxUint64Digits))
        THEN [ok |-> FALSE, n |-> 0]
        ELSE IF Len(sig) > 9 THEN [ok |-> TRUE, n |-> UintSaturated]
        ELSE [ok |-> TRUE, n |-> DigitsValue(sig)]

\* strings.ToLower, as far as its result can spell an ASCII word: ASCII
\* letters, and U+0130 (bytes C4 B0), whose lower case is 'i'.
RECURSIVE ToLower(_)
ToLower(s) ==
    IF Len(s) = 0 THEN <<>>
    ELSE IF Len(s) >= 2 /\ s[1] = 196 /\ s[2] = 176
         THEN <<105>> \o ToLower(SubSeq(s, 3, Len(s)))
    ELSE IF s[1] >= 65 /\ s[1] <= 90 THEN <<s[1] + 32>> \o ToLower(Tail(s))
    ELSE <<s[1]>> \o ToLower(Tail(s))

-----------------------------------------------------------------------------
(* message.go: methods and content encodings                               *)

\* "GET"
MethodGet == <<71, 69, 84>>

\* "HEAD"
MethodHead == <<72, 69, 65, 68>>

\* "POST"
MethodPost == <<80, 79, 83, 84>>

\* Method.Validate() = nil
MethodValidate(m) == m \in {MethodGet, MethodHead, MethodPost}

\* "x-gzip"
ContentEncodingXGzip == <<120, 45, 103, 122, 105, 112>>

\* "gzip"
ContentEncodingGZip == <<103, 122, 105, 112>>

\* "x-compress"
ContentEncodingXCompress == <<120, 45, 99, 111, 109, 112, 114, 101, 115, 115>>

\* "compress"
ContentEncodingCompress == <<99, 111, 109, 112, 114, 101, 115, 115>>

\* ContentEncoding.Validate() = nil
ContentEncodingValidate(e) ==
    e \in {ContentEncodingXGzip, ContentEncodingGZip,
           ContentEncodingXCompress, ContentEncodingCompress}

-----------------------------------------------------------------------------
(* parse.go: the header block                                              *)

\* "Date"
HDate == <<68, 97, 116, 101>>

\* "Pragma"
HPragma == <<80, 114, 97, 103, 109, 97>>

\* "Authorization"
HAuthorization == <<65, 117, 116, 104, 111, 114, 105, 122, 97, 116, 105, 111, 110>>

\* "Referer"
HReferer == <<82, 101, 102, 101, 114, 101, 114>>

\* "From"
HFrom == <<70, 114, 111, 109>>

\* "If-Modified-Since"
HIfModifiedSince ==
    <<73, 102, 45, 77, 111, 100, 105, 102, 105, 101, 100, 45, 83, 105, 110, 99, 101>>

\* "User-Agent"
HUserAgent == <<85, 115, 101, 114, 45, 65, 103, 101, 110, 116>>

\* "Allow"
HAllow == <<65, 108, 108, 111, 119>>

\* "Content-Encoding"
HContentEncoding ==
    <<67, 111, 110, 116, 101, 110, 116, 45, 69, 110, 99, 111, 100, 105, 110, 103>>

\* "Content-Length"
HContentLength == <<67, 111, 110, 116, 101, 110, 116, 45, 76, 101, 110, 103, 116, 104>>

\* "Expires"
HExpires == <<69, 120, 112, 105, 114, 101, 115>>

\* "Last-Modified"
HLastModified == <<76, 97, 115, 116, 45, 77, 111, 100, 105, 102, 105, 101, 100>>

\* "Content-Type"
HContentType == <<67, 111, 110, 116, 101, 110, 116, 45, 84, 121, 112, 101>>

\* The names setHeader's switch recognizes.
RecognizedNames ==
    {HDate, HPragma, HAuthorization, HReferer, HFrom, HIfModifiedSince,
     HUserAgent, HAllow, HContentEncoding, HContentLength, HExpires,
     HLastModified, HContentType}

\* RequestHeaders{}: the typed fields the date, length, encoding and
\* unrecognized setters write, and the raw name-to-value map.
RequestHeaders0 ==
    [Date            |-> ZeroTime,
     IfModifiedSince |-> ZeroTime,
     Expires         |-> ZeroTime,
     LastModified    |-> ZeroTime,
     ContentEncoding |-> <<>>,
     ContentLength   |-> 0,
     Unrecognized    |-> EmptyMap,
     raw             |-> EmptyMap]

\* Each setter returns the headers after the call and whether err = nil:
\* assigned(rh, field, r, key) is the common end of the setters that parse
\* a value, r being what the parser returned and r[key] the parsed value.
assigned(rh, field, r, key) ==
    IF ~r.ok THEN [ok |-> FALSE, rh |-> rh]
    ELSE [ok |-> TRUE, rh |-> [rh EXCEPT ![field] = r[key]]]

setDate(rh, data) == assigned(rh, "Date", ParseDate(data), "date")

setIfModifiedSince(rh, data) ==
    assigned(rh, "IfModifiedSince", ParseDate(data), "date")

\* setExpires assigns rh.Date (parse.go:744).
setExpires(rh, data) == assigned(rh, "Date", ParseDate(data), "date")

setLastModified(rh, data) ==
    assigned(rh, "LastModified", ParseDate(data), "date")

setContentEncoding(rh, data) ==
    IF ~ValidateToken(data) THEN [ok |-> FALSE, rh |-> rh]
    ELSE LET lower    == ToLower(data)
             encoding == IF ContentEncodingValidate(lower) THEN lower ELSE data
         IN  [ok |-> TRUE, rh |-> [rh EXCEPT !.ContentEncoding = encoding]]

setContentLength(rh, data) ==
    assigned(rh, "ContentLength", ParseUint(data), "n")

setUnrecognized(rh, name, data) ==
    IF ~ValidateText(data) THEN [ok |-> FALSE, rh |-> rh]
    ELSE [ok |-> TRUE,
          rh |-> [rh EXCEPT !.Unrecognized = MapPut(rh.Unrecognized, name, data)]]

\* The switch of setHeader.  The arms for Pragma, Authorization, Referer,
\* From, User-Agent, Allow and Content-Type are not part of this module: no
\* header block of the model carries one of these names, and TLC stops with
\* an error if one ever did.
setHeaderSwitch(rh, name, value) ==
    CASE name = HDate            -> setDate(rh, value)
      [] name = HIfModifiedSince -> setIfModifiedSince(rh, value)
      [] name = HContentEncoding -> setContentEncoding(rh, value)
      [] name = HContentLength   -> setContentLength(rh, value)
      [] name = HExpires         -> setExpires(rh, value)
      [] name = HLastModified    -> setLastModified(rh, value)
      [] name \notin RecognizedNames -> setUnrecognized(rh, name, value)

\* The end of setHeader: the raw map is written when the setter succeeded.
recorded(r, name, value) ==
    IF ~r.ok THEN r
    ELSE [ok |-> TRUE, rh |-> [r.rh EXCEPT !.raw = MapPut(@, name, value)]]

\* RequestHeaders.setHeader(name, value)
setHeader(rh, name, value) ==
    recorded(setHeaderSwitch(rh, name, value), name, value)

validateHeaderName(data) == ValidateToken(data)

validateHeaderValue(data) == TextLoop(data, 0)

\* The loop of splitRequestHeaders and what follows it.
RECURSIVE splitLoop(_, _, _, _, _)
splitLoop(data, parts, start, nextCrlf, end) ==
    IF nextCrlf # -1
    THEN IF ~Check(data, end).isLws
         THEN LET start2 == end + Len(Crlf)
                  next2  == Index(SliceFrom(data, start2), Crlf)
              IN  splitLoop(data, Append(parts, Slice(data, start, end)),
                            start2, next2, start2 + next2)
         ELSE LET next2 == Index(SliceFrom(data, end + Len(Crlf)), Crlf)
              IN  splitLoop(data, parts, start, next2, end + Len(Crlf) + next2)
    ELSE IF Len(SliceFrom(data, start)) > 0
         THEN Append(parts, SliceFrom(data, start))
         ELSE parts

\* splitRequestHeaders as it would be if it cut at every CRLF.
RECURSIVE splitRequestHeadersAtEveryCrlf(_)
splitRequestHeadersAtEveryCrlf(data) ==
    LET i == Index(data, Crlf)
    IN  IF i = -1 THEN (IF Len(data) > 0 THEN <<data>> ELSE <<>>)
        ELSE <<Slice(data, 0, i)>>
               \o splitRequestHeadersAtEveryCrlf(SliceFrom(data, i + 2))

splitRequestHeaders(data) ==
    splitLoop(data, <<>>, 0, Index(data, Crlf), Index(data, Crlf))

\* One iteration of the loop of parseRequestHeaders, in three steps: the
\* field is split at its first ':', name and value are validated, the
\* header is set.  err is "nil", "ClientError" (the ClientError type) or
\* "error" (a plain error value); ret is the line of parse.go whose return
\* statement ends the call.
fieldSet(r) ==
    IF ~r.ok THEN [headers |-> r.rh, err |-> "ClientError", ret |-> 164]
    ELSE [headers |-> r.rh, err |-> "nil", ret |-> 168]

fieldChecked(headers, name, value) ==
    IF ~validateHeaderName(name)
    THEN [headers |-> headers, err |-> "ClientError", ret |-> 153]
    ELSE IF ~validateHeaderValue(value)
    THEN [headers |-> headers, err |-> "error", ret |-> 159]
    ELSE fieldSet(setHeader(headers, name, value))

fieldSplit(headers, parts) ==
    IF Len(parts) < 2
    THEN [headers |-> headers, err |-> "ClientError", ret |-> 147]
    ELSE fieldChecked(headers, TrimRight(parts[1]), TrimLeft(parts[2]))

parseHeaderField(headers, header) == fieldSplit(headers, SplitN2(header, 58))

\* The loop of parseRequestHeaders from the k-th field on, r being the
\* outcome so far.
RECURSIVE parseHeadersLoop(_, _, _)
parseHeadersLoop(r, parts, k) ==
    IF r.err # "nil" \/ k > Len(parts) THEN r
    ELSE parseHeadersLoop(parseHeaderField(r.headers, parts[k]), parts, k + 1)

parseRequestHeaders(data) ==
    parseHeadersLoop([headers |-> RequestHeaders0, err |-> "nil", ret |-> 168],
                     splitRequestHeaders(data), 1)

-----------------------------------------------------------------------------
(* uri.go: the Request-URI                                                 *)

ByteSeparator == 47

ByteParam == 59

ByteQuery == 63

\* "net_path", "abs_path", "rel_path"
NetPath == "net_path"

AbsPath == "abs_path"

RelPath == "rel_path"

\* unescapeSequence(data, i): the byte "%XY" at i stands for, or an error.
unescapeSequence(data, i) ==
    IF i + 1 = Len(data) THEN [ok |-> FALSE, b |-> 0]
    ELSE IF HexValue(At(data, i + 1)) = -1 THEN [ok |-> FALSE, b |-> 0]
    ELSE IF i + 2 = Len(data)
         THEN [ok |-> FALSE, b |-> (HexValue(At(data, i + 1)) * 16) % 256]
    ELSE IF HexValue(At(data, i + 2)) = -1
         THEN [ok |-> FALSE, b |-> (HexValue(At(data, i + 1)) * 16) % 256]
    ELSE [ok |-> TRUE,
          b  |-> (HexValue(At(data, i + 1)) * 16 + HexValue(At(data, i + 2))) % 256]

RelativeUri0 == [NetLoc |-> <<>>, Path |-> <<>>, Params |-> <<>>, Query |-> <<>>]

getPathForm(u) ==
    IF Len(u.NetLoc) > 0 THEN NetPath
    ELSE IF Len(u.Path) = 0 \/ At(u.Path, 0) # ByteSeparator THEN RelPath
    ELSE AbsPath

\* The inner loop of parseUriPath over one segment p, from index j.
RECURSIVE pathSegmentLoop(_, _, _)
pathSegmentLoop(p, j, part) ==
    IF j >= Len(p) THEN [ok |-> TRUE, part |-> part]
    ELSE IF IsEscape(At(p, j))
    THEN LET c == unescapeSequence(p, j)
         IN  IF ~c.ok THEN [ok |-> FALSE, part |-> part]
             ELSE IF ~IsPChar(c.b) THEN [ok |-> FALSE, part |-> part]
             ELSE pathSegmentLoop(p, j + 3, Append(part, c.b))
    ELSE IF ~IsPChar(At(p, j)) THEN [ok |-> FALSE, part |-> part]
    ELSE pathSegmentLoop(p, j + 1, Append(part, At(p, j)))

\* The outer loop of parseUriPath from the k-th segment on, and the join
\* that follows it.
RECURSIVE pathSegments(_, _, _)
pathSegments(unescaped, k, path) ==
    IF k > Len(unescaped)
    THEN [ok |-> TRUE, path |-> Join(path, <<ByteSeparator>>)]
    ELSE IF ~pathSegmentLoop(unescaped[k], 0, <<>>).ok
    THEN [ok |-> FALSE, path |-> <<>>]
    ELSE pathSegments(unescaped, k + 1,
                      Append(path, pathSegmentLoop(unescaped[k], 0, <<>>).part))

parseUriPath(data) ==
    IF Len(Split(data, ByteSeparator)) > 1 /\ Len(Split(data, ByteSeparator)[1]) = 0
    THEN [ok |-> FALSE, path |-> <<>>]
    ELSE pathSegments(Split(data, ByteSeparator), 1, <<>>)

\* The inner loop of parseUriParams over one parameter p, from index j.
RECURSIVE paramLoop(_, _, _)
paramLoop(p, j, param) ==
    IF j >= Len(p) THEN [ok |-> TRUE, param |-> param]
    ELSE IF IsEscape(At(p, j))
    THEN LET c == unescapeSequence(p, j)
         IN  IF ~c.ok THEN [ok |-> FALSE, param |-> param]
             ELSE IF ~IsPChar(c.b) /\ c.b # ByteSeparator
             THEN [ok |-> FALSE, param |-> param]
             ELSE paramLoop(p, j + 3, Append(param, c.b))
    ELSE IF ~IsPChar(At(p, j)) /\ At(p, j) # ByteSeparator
    THEN [ok |-> FALSE, param |-> param]
    ELSE paramLoop(p, j + 1, Append(param, At(p, j)))

RECURSIVE paramsLoop(_, _, _)
paramsLoop(ps, k, params) ==
    IF k > Len(ps) THEN [ok |-> TRUE, params |-> params]
    ELSE LET r == paramLoop(ps[k], 0, <<>>)
         IN  IF ~r.ok THEN [ok |-> FALSE, params |-> params]
             ELSE paramsLoop(ps, k + 1, Append(params, r.param))

parseUriParams(data) ==
    IF Len(data) = 0 THEN [ok |-> TRUE, params |-> <<>>]
    ELSE paramsLoop(Split(data, ByteParam), 1, <<>>)

RECURSIVE queryLoop(_, _, _)
queryLoop(data, i, query) ==
    IF i >= Len(data) THEN [ok |-> TRUE, query |-> query]
    ELSE IF IsEscape(At(data, i))
    THEN LET c == unescapeSequence(data, i)
         IN  IF ~c.ok THEN [ok |-> FALSE, query |-> query]
             ELSE IF ~IsReserved(c.b) /\ ~IsUnreserved(c.b)
             THEN [ok |-> FALSE, query |-> query]
             ELSE queryLoop(data, i + 3, Append(query, c.b))
    ELSE IF ~IsReserved(At(data, i)) /\ ~IsUnreserved(At(data, i))
    THEN [ok |-> FALSE, query |-> query]
    ELSE queryLoop(data, i + 1, Append(query, At(data, i)))

parseUriQuery(data) == queryLoop(data, 0, <<>>)

\* The end of parseRelPathUri: p, a and q are what parseUriPath,
\* parseUriParams and parseUriQuery returned.
relPathParsed(p, a, q) ==
    IF ~p.ok
    THEN [err |-> "ClientError", path |-> p.path, params |-> <<>>, query |-> <<>>]
    ELSE IF ~a.ok
    THEN [err |-> "ClientError", path |-> p.path, params |-> a.params, query |-> <<>>]
    ELSE IF ~q.ok
    THEN [err |-> "ClientError", path |-> p.path, params |-> a.params, query |-> q.query]
    ELSE [err |-> "nil", path |-> p.path, params |-> a.params, query |-> q.query]

\* The slices parseRelPathUri cuts data into, from the indices pIdx of the
\* first ';' and qIdx of the first '?'.
relPathSliced(data, pIdx, qIdx) ==
    LET querySlice == IF qIdx # -1 THEN SliceFrom(data, qIdx + 1) ELSE <<>>
        queryIndex == IF qIdx # -1 THEN qIdx ELSE Len(data)
        hasParams  == pIdx # -1 /\ pIdx < queryIndex
        paramsSlice == IF hasParams THEN Slice(data, pIdx + 1, queryIndex) ELSE <<>>
        paramsIndex == IF hasParams THEN pIdx ELSE queryIndex
    IN  relPathParsed(parseUriPath(Slice(data, 0, paramsIndex)),
                      parseUriParams(paramsSlice),
                      parseUriQuery(querySlice))

parseRelPathUri(data) ==
    relPathSliced(data, IndexByte(data, ByteParam), IndexByte(data, ByteQuery))

parseAbsUri(data) ==
    IF Len(data) = 0 \/ At(data, 0) # ByteSeparator
    THEN [err |-> "error", path |-> <<>>, params |-> <<>>, query |-> <<>>]
    ELSE [parseRelPathUri(SliceFrom(data, 1)) EXCEPT !.path = <<ByteSeparator>> \o @]

\* The loop of parseRelativeUri that finds where net_loc ends.
RECURSIVE netLocEnd(_, _)
netLocEnd(data, i) ==
    IF i < Len(data)
       /\ (IsPChar(At(data, i)) \/ At(data, i) = ByteParam \/ At(data, i) = ByteQuery)
    THEN netLocEnd(data, i + 1)
    ELSE i

\* The end of parseRelativeUri: r is what parseAbsUri or parseRelPathUri
\* returned for what follows net_loc.
relativeUriParsed(uri, r) ==
    IF r.err # "nil" THEN [err |-> r.err, uri |-> uri]
    ELSE [err |-> "nil",
          uri |-> [uri EXCEPT !.Path = r.path,
                              !.Params = r.params,
                              !.Query = r.query]]

\* parseRelativeUri once net_loc is taken: start is where it ends.
relativeUriFrom(data, start, uri) ==
    IF start = Len(data) THEN [err |-> "nil", uri |-> uri]
    ELSE relativeUriParsed(uri,
             IF start > 0 \/ At(data, start) = ByteSeparator
             THEN parseAbsUri(SliceFrom(data, start))
             ELSE parseRelPathUri(SliceFrom(data, start)))

parseRelativeUri(data) ==
    IF Len(data) >= 2 /\ At(data, 0) = ByteSeparator /\ At(data, 1) = ByteSeparator
    THEN relativeUriFrom(data, netLocEnd(data, 2),
             [RelativeUri0 EXCEPT !.NetLoc = Slice(data, 2, netLocEnd(data, 2))])
    ELSE relativeUriFrom(data, 0, RelativeUri0)

\* ValidateScheme from index i on: each rune is a letter or a digit (judged
\* on HttpByte(c), its low eight bits) or one of '+', '-', '.'.
RECURSIVE schemeLoop(_, _)
RECURSIVE schemeStep(_, _, _)
schemeStep(s, i, w) ==
    /\ \/ IsAlpha(RuneLowByte(s, i, w))
       \/ IsNumeric(RuneLowByte(s, i, w))
       \/ (w = 1 /\ At(s, i) \in {43, 45, 46})
    /\ schemeLoop(s, i + (IF w = 0 THEN 1 ELSE w))

schemeLoop(s, i) == i >= Len(s) \/ schemeStep(s, i, RuneWidth(s, i))

\* ValidateScheme(s) = nil
ValidateScheme(s) == Len(s) # 0 /\ schemeLoop(s, 0)

\* validateStartsWithScheme(data) = nil
validateStartsWithScheme(data) ==
    /\ IndexByte(data, 58) # -1
    /\ ValidateScheme(Slice(data, 0, IndexByte(data, 58)))

\* The loop of parseAbsoluteUri over what follows the scheme.
RECURSIVE absolutePathLoop(_, _, _)
absolutePathLoop(remaining, i, path) ==
    IF i >= Len(remaining) THEN [ok |-> TRUE, path |-> path]
    ELSE IF IsEscape(At(remaining, i))
    THEN LET c == unescapeSequence(remaining, i)
         IN  IF ~c.ok THEN [ok |-> FALSE, path |-> path]
             ELSE IF ~IsReserved(c.b) /\ ~IsUnreserved(c.b)
             THEN [ok |-> FALSE, path |-> path]
             ELSE absolutePathLoop(remaining, i + 3, Append(path, c.b))
    ELSE IF ~IsReserved(At(remaining, i)) /\ ~IsUnreserved(At(remaining, i))
    THEN [ok |-> FALSE, path |-> path]
    ELSE absolutePathLoop(remaining, i + 1, Append(path, At(remaining, i)))

\* The end of parseAbsoluteUri: r is what the loop returned.
absoluteUriParsed(scheme, r) ==
    IF ~r.ok THEN [ok |-> FALSE, uri |-> [Scheme |-> scheme, Path |-> <<>>]]
    ELSE [ok |-> TRUE, uri |-> [Scheme |-> scheme, Path |-> r.path]]

parseAbsoluteUri(data) ==
    IF ~validateStartsWithScheme(data)
    THEN [ok |-> FALSE, uri |-> [Scheme |-> <<>>, Path |-> <<>>]]
    ELSE absoluteUriParsed(
             Slice(data, 0, IndexByte(data, 58)),
             absolutePathLoop(SliceFrom(data, IndexByte(data, 58) + 1), 0, <<>>))

\* AbsoluteUri.marshal
absoluteUriMarshal(u) == u.Scheme \o <<58>> \o u.Path

\* RelativeUri.marshal
relativeUriMarshal(u) ==
    (IF Len(u.NetLoc) > 0 THEN <<ByteSeparator, ByteSeparator>> \o u.NetLoc
     ELSE <<>>)
    \o u.Path
    \o (IF Len(u.Params) > 0 THEN <<ByteParam>> \o Join(u.Params, <<ByteParam>>)
        ELSE <<>>)
    \o (IF Len(u.Query) > 0 THEN <<ByteQuery>> \o u.Query ELSE <<>>)

-----------------------------------------------------------------------------
(* uri.go: parseUri, and the parsers of a Referer                          *)

\* parseUri(data): an AbsoluteUri when data starts with a scheme, else a
\* RelativeUri.
parseUri(data) ==
    IF validateStartsWithScheme(data)
    THEN [ok       |-> parseAbsoluteUri(data).ok,
          absolute |-> TRUE,
          uri      |-> parseAbsoluteUri(data).uri]
    ELSE [ok       |-> parseRelativeUri(data).err = "nil",
          absolute |-> FALSE,
          uri      |-> parseRelativeUri(data).uri]

\* RequestHeaders.setReferer(data): whether it returns nil, and the value it
\* stores in rh.Referer when it does.
setReferer(data) == parseUri(data)

\* The loop of safeUriParser.parse.
RECURSIVE safeUriLoop(_, _, _)
safeUriLoop(u, i, uri) ==
    IF i >= Len(u) THEN [ok |-> TRUE, uri |-> uri]
    ELSE IF IsEscape(At(u, i))
    THEN LET c == unescapeSequence(u, i)
         IN  IF ~c.ok THEN [ok |-> FALSE, uri |-> u]
             ELSE IF IsUnsafe(c.b) /\ c.b # 35 THEN [ok |-> FALSE, uri |-> u]
             ELSE safeUriLoop(u, i + 3, Append(uri, c.b))
    ELSE IF IsUnsafe(At(u, i)) /\ At(u, i) # 35 THEN [ok |-> FALSE, uri |-> u]
    ELSE safeUriLoop(u, i + 1, Append(uri, At(u, i)))

\* safeUriParser(u).parse()
safeUriParse(u) == safeUriLoop(u, 0, <<>>)

-----------------------------------------------------------------------------
(* parse.go: the request line                                              *)

\* "9223372036854775807", the largest int64
MaxInt64Digits ==
    <<57, 50, 50, 51, 51, 55, 50, 48, 51, 54, 56, 53, 52, 55, 55, 53, 56, 48,
      55>>

\* "9223372036854775808", the size of the smallest int64
MinInt64Digits ==
    <<57, 50, 50, 51, 51, 55, 50, 48, 51, 54, 56, 53, 52, 55, 55, 53, 56, 48,
      56>>

\* strconv.Atoi: an optional sign, then decimal digits within int64.
Atoi(s) ==
    LET signed == Len(s) > 0 /\ s[1] \in {43, 45}
        neg    == Len(s) > 0 /\ s[1] = 45
        digits == IF signed THEN Tail(s) ELSE s
        sig    == StripZeros(digits)
        limit  == IF neg THEN MinInt64Digits ELSE MaxInt64Digits
    IN  IF Len(digits) = 0 \/ \E k \in 1..Len(digits) : ~IsNumeric(digits[k])
        THEN [ok |-> FALSE, n |-> 0]
        ELSE IF Len(sig) > 19 \/ (Len(sig) = 19 /\ LexGreater(sig, limit))
        THEN [ok |-> FALSE, n |-> 0]
        ELSE LET abs == IF Len(sig) > 9 THEN UintSaturated ELSE DigitsValue(sig)
             IN  [ok |-> TRUE, n |-> IF neg THEN 0 - abs ELSE abs]

\* "HTTP"
ProtocolName == <<72, 84, 84, 80>>

parseVersion(data) ==
    IF Len(data) < 8 THEN [ok |-> FALSE, version |-> data]
    ELSE LET parts == Split(data, ByteSeparator)
         IN  IF Len(parts) # 2 \/ IndexByte(parts[2], 46) = -1
             THEN [ok |-> FALSE, version |-> data]
             ELSE IF parts[1] # ProtocolName THEN [ok |-> FALSE, version |-> data]
             ELSE LET digits == Split(parts[2], 46)
                  IN  IF Len(digits) # 2 THEN [ok |-> FALSE, version |-> data]
                      ELSE IF ~Atoi(digits[1]).ok \/ ~Atoi(digits[2]).ok
                      THEN [ok |-> FALSE, version |-> data]
                      ELSE IF Atoi(digits[1]).n = 0
                      THEN [ok |-> FALSE, version |-> data]
                      ELSE [ok |-> TRUE, version |-> parts[2]]

RequestLine0 == [Method |-> <<>>, Uri |-> RelativeUri0, Version |-> <<>>]

\* The end of parseRequestLine: u and v are what parseRelativeUri and
\* parseVersion returned.  ret is the line of parse.go whose return
\* statement is taken.
requestLineParsed(method, u, v) ==
    IF u.err # "nil"
    THEN [err |-> u.err, ret |-> 94, line |-> RequestLine0]
    ELSE IF getPathForm(u.uri) # AbsPath
    THEN [err |-> "error", ret |-> 98, line |-> RequestLine0]
    ELSE IF ~v.ok
    THEN [err |-> "ClientError", ret |-> 103, line |-> RequestLine0]
    ELSE [err |-> "nil", ret |-> 106,
          line |-> [Method |-> method, Uri |-> u.uri, Version |-> v.version]]

requestLineSplit(parts) ==
    IF Len(parts) # 3
    THEN [err |-> "ClientError", ret |-> 83, line |-> RequestLine0]
    ELSE IF ~MethodValidate(parts[1])
    THEN [err |-> "ClientError", ret |-> 89, line |-> RequestLine0]
    ELSE requestLineParsed(parts[1], parseRelativeUri(parts[2]),
                           parseVersion(parts[3]))

parseRequestLine(data) == requestLineSplit(Split(data, SP))

-----------------------------------------------------------------------------
(* parse.go: the body                                                      *)

\* gzip.NewReader needs a ten-byte member header that starts 1f 8b 08; the
\* bodies of the model are shorter, so the header read always fails.
GzipHeaderLen == 10

gzipDecode(body) ==
    CASE Len(body) < GzipHeaderLen -> [ok |-> FALSE, out |-> <<>>]

\* lzw.NewReader(r, lzw.LSB, 8) on at most two bytes: the first code is the
\* low nine bits; nothing but the end code 257 ends the stream cleanly, and
\* no second code fits in what is left.
compressDecode(body) ==
    CASE Len(body) < 2 -> [ok |-> FALSE, out |-> <<>>]
      [] Len(body) = 2 ->
            LET code == (body[1] + 256 * body[2]) % 512
            IN  IF code = 257 THEN [ok |-> TRUE, out |-> <<>>]
                ELSE IF code < 256 THEN [ok |-> FALSE, out |-> <<body[1]>>]
                ELSE [ok |-> FALSE, out |-> <<>>]

\* The end of decodeRequestBody: a decoder's failure is a ServerError.
decoded(r) == [err |-> IF r.ok THEN "nil" ELSE "ServerError", body |-> r.out]

decodeRequestBody(body, encoding) ==
    decoded(IF encoding \in {ContentEncodingXGzip, ContentEncodingGZip}
            THEN gzipDecode(body)
            ELSE IF encoding \in {ContentEncodingXCompress, ContentEncodingCompress}
            THEN compressDecode(body)
            ELSE [ok |-> TRUE, out |-> body])

parseRequestBody(data, rh) ==
    IF rh.ContentLength > Len(data)
    THEN [err |-> "ClientError", body |-> <<>>]
    ELSE decodeRequestBody(Slice(data, 0, rh.ContentLength), rh.ContentEncoding)

-----------------------------------------------------------------------------
(* parse.go: parseRequest                                                  *)

\* Server.MaxHeaderBytes and Server.MaxBodyBytes of the server under study.
MaxHeaderBytes == 68

MaxBodyBytes == 10

\* What io.LimitedReader{R: conn, N: n} delivers of the bytes the client
\* sent before it reports the end of the stream.
LimitedReader(wire, n) == Slice(wire, 0, MinOf({Len(wire), n}))

\* bufio.Reader.ReadBytes('\n') / ReadString('\n') from offset pos.
ReadBytes(stream, pos) ==
    LET i == IndexByte(SliceFrom(stream, pos), LF)
    IN  IF i = -1 THEN [ok |-> FALSE, line |-> SliceFrom(stream, pos), next |-> Len(stream)]
        ELSE [ok |-> TRUE, line |-> Slice(stream, pos, pos + i + 1), next |-> pos + i + 1]

\* The loop that gathers the header lines up to the empty line; l is the
\* line just read.
RECURSIVE readHeaderLines(_, _, _)
RECURSIVE headerLineRead(_, _, _)
headerLineRead(stream, l, headerBuf) ==
    IF ~l.ok THEN [ok |-> FALSE, buf |-> headerBuf, next |-> l.next]
    ELSE IF l.line = Crlf THEN [ok |-> TRUE, buf |-> headerBuf, next |-> l.next]
    ELSE readHeaderLines(stream, l.next, headerBuf \o l.line)

readHeaderLines(stream, pos, headerBuf) ==
    headerLineRead(stream, ReadBytes(stream, pos), headerBuf)

\* io.ReadFull(reader, make([]byte, n)) from offset pos.
ReadFull(stream, pos, n) ==
    IF Len(stream) - pos >= n
    THEN [ok |-> TRUE, bytes |-> Slice(stream, pos, pos + n)]
    ELSE [ok |-> FALSE, bytes |-> SliceFrom(stream, pos)]

\* exceedsMaxBody as it would be if the cap let one more byte through.
exceedsMaxBodyByTwo(contentLength, maxBodyBytes) ==
    contentLength > maxBodyBytes + 1

exceedsMaxBody(contentLength, maxBodyBytes) == contentLength > maxBodyBytes

NoRequest == [nil |-> TRUE]

\* The outcome of parseRequest before the body is looked at: alloc is the
\* size of the body buffer made (-1: none was made), filled the number of
\* body bytes copied into it.
Failed(err, ret, headers) ==
    [err |-> err, ret |-> ret, request |-> NoRequest, headers |-> headers,
     alloc |-> -1, filled |-> 0]

\* parseRequest, one operator per stage; each stage is given what the
\* stages before it produced.  afterBody: the body has been decoded.
afterBody(line, headers, body) ==
    IF body.err # "nil"
    THEN [err |-> body.err, ret |-> 74, request |-> NoRequest,
          headers |-> headers, alloc |-> headers.ContentLength,
          filled |-> headers.ContentLength]
    ELSE [err |-> "nil", ret |-> 77,
          request |-> [nil     |-> FALSE,
                       Line    |-> line,
                       Headers |-> headers,
                       Body    |-> body.body],
          headers |-> headers, alloc |-> headers.ContentLength,
          filled |-> headers.ContentLength]

\* afterBodyRead: io.ReadFull has returned full.
afterBodyRead(line, headers, full) ==
    IF ~full.ok
    THEN [err |-> "error", ret |-> 69, request |-> NoRequest,
          headers |-> headers, alloc |-> headers.ContentLength,
          filled |-> Len(full.bytes)]
    ELSE afterBody(line, headers, parseRequestBody(full.bytes, headers))

\* afterHeaders: parseRequestHeaders has returned h; pos is where the
\* reader stands.
afterHeaders(stream, line, pos, h, maxBodyBytes) ==
    IF h.err # "nil" THEN Failed(h.err, 60, RequestHeaders0)
    ELSE IF exceedsMaxBody(h.headers.ContentLength, maxBodyBytes)
    THEN Failed("ClientError", 63, h.headers)
    ELSE afterBodyRead(line, h.headers,
                       ReadFull(stream, pos, h.headers.ContentLength))

\* afterRequestLine: parseRequestLine has returned line and the header
\* lines have been read as hdr.
afterRequestLine(stream, line, hdr, maxBodyBytes) ==
    IF line.err # "nil" THEN Failed(line.err, 42, RequestHeaders0)
    ELSE IF ~hdr.ok THEN Failed("error", 49, RequestHeaders0)
    ELSE afterHeaders(stream, line.line, hdr.next,
                      parseRequestHeaders(BytesTrim(hdr.buf, {CR, LF})),
                      maxBodyBytes)

\* afterFirstLine: the first line has been read as first.
afterFirstLine(stream, first, maxBodyBytes) ==
    IF ~first.ok THEN Failed("error", 33, RequestHeaders0)
    ELSE IF ~HasSuffix(first.line, Crlf)
    THEN Failed("ClientError", 37, RequestHeaders0)
    ELSE afterRequestLine(stream,
                          parseRequestLine(BytesTrim(first.line, {CR, LF})),
                          readHeaderLines(stream, first.next, <<>>),
                          maxBodyBytes)

parseRequest(wire, maxHeaderBytes, maxBodyBytes) ==
    afterFirstLine(LimitedReader(wire, maxHeaderBytes),
                   ReadBytes(LimitedReader(wire, maxHeaderBytes), 0),
                   maxBodyBytes)

-----------------------------------------------------------------------------
(* status.go, response.go and the status line                              *)

StatusOK == 200

StatusCreated == 201

StatusAccepted == 202

StatusNoContent == 204

StatusMovedPermanently == 301

StatusMovedTemporarily == 302

StatusNotModified == 304

StatusBadRequest == 400

StatusUnauthorized == 401

StatusForbidden == 403

StatusNotFound == 404

StatusInternalServerError == 500

StatusNotImplemented == 501

StatusBadGateway == 502

StatusServiceUnavailable == 503

StatusText(c) ==
    CASE c = StatusOK -> \* "OK"
            <<79, 75>>
      [] c = StatusCreated -> \* "Created"
            <<67, 114, 101, 97, 116, 101, 100>>
      [] c = StatusAccepted -> \* "Accepted"
            <<65, 99, 99, 101, 112, 116, 101, 100>>
      [] c = StatusNoContent -> \* "No Content"
            <<78, 111, 32, 67, 111, 110, 116, 101, 110, 116>>
      [] c = StatusMovedPermanently -> \* "Moved Permanently"
            <<77, 111, 118, 101, 100, 32, 80, 101, 114, 109, 97, 110, 101, 110, 116, 108, 121>>
      [] c = StatusMovedTemporarily -> \* "Moved Temporarily"
            <<77, 111, 118, 101, 100, 32, 84, 101, 109, 112, 111, 114, 97, 114, 105, 108, 121>>
      [] c = StatusNotModified -> \* "Not Modified"
            <<78, 111, 116, 32, 77, 111, 100, 105, 102, 105, 101, 100>>
      [] c = StatusBadRequest -> \* "Bad Request"
            <<66, 97, 100, 32, 82, 101, 113, 117, 101, 115, 116>>
      [] c = StatusUnauthorized -> \* "Unauthorized"
            <<85, 110, 97, 117, 116, 104, 111, 114, 105, 122, 101, 100>>
      [] c = StatusForbidden -> \* "Forbidden"
            <<70, 111, 114, 98, 105, 100, 100, 101, 110>>
      [] c = StatusNotFound -> \* "Not Found"
            <<78, 111, 116, 32, 70, 111, 117, 110, 100>>
      [] c = StatusInternalServerError -> \* "Internal Server Error"
            <<73, 110, 116, 101, 114, 110, 97, 108, 32, 83, 101, 114, 118, 101, 114, 32, 69, 114, 114, 111, 114>>
      [] c = StatusNotImplemented -> \* "Not Implemented"
            <<78, 111, 116, 32, 73, 109, 112, 108, 101, 109, 101, 110, 116, 101, 100>>
      [] c = StatusBadGateway -> \* "Bad Gateway"
            <<66, 97, 100, 32, 71, 97, 116, 101, 119, 97, 121>>
      [] c = StatusServiceUnavailable -> \* "Service Unavailable"
            <<83, 101, 114, 118, 105, 99, 101, 32, 85, 110, 97, 118, 97, 105, 108, 97, 98, 108, 101>>
      [] OTHER -> <<>>

\* "HTTP/1.0 "
HttpVersionPrefix ==
    <<72, 84, 84, 80, 47, 49, 46, 48, 32>>

\* %d of a non-negative integer
RECURSIVE Itoa(_)
Itoa(n) == IF n < 10 THEN <<48 + n>> ELSE Itoa(n \div 10) \o <<48 + (n % 10)>>

\* code.marshal
codeMarshal(c) == HttpVersionPrefix \o Itoa(c) \o <<SP>> \o StatusText(c) \o Crlf

\* responseHeaders{}: every field at its zero value.  A Go map is modelled
\* by the function from its keys to their values; location is the Uri
\* interface value, nil or an AbsoluteUri.
responseHeaders0 ==
    [date            |-> ZeroTime,
     pragma          |-> [Flags |-> EmptyMap, Options |-> EmptyMap],
     location        |-> [nil |-> TRUE],
     server          |-> [comments |-> <<>>, products |-> <<>>],
     wwwAuthenticate |-> [scheme |-> <<>>, realm |-> <<>>, params |-> EmptyMap],
     allow           |-> [methods |-> <<>>],
     contentEncoding |-> <<>>,
     contentLength   |-> 0,
     contentType     |-> [Type |-> <<>>, Subtype |-> <<>>, Parameters |-> EmptyMap],
     expires         |-> ZeroTime,
     lastModified    |-> ZeroTime,
     unrecognized    |-> EmptyMap]

\* response{}
response0 == [code |-> 0, headers |-> responseHeaders0, body |-> <<>>]

\* ResponseWriter.SetStatus on the writer's response
SetStatus(response, c) ==
    IF StatusText(c) = <<>> THEN response ELSE [response EXCEPT !.code = c]

-----------------------------------------------------------------------------
(* State                                                                   *)

VARIABLES
    srv,        \* the Server value and where Serve stands
    conns,      \* per connection slot: the task running handle on it
    panicked,   \* a goroutine panicked: the process is gone
    arg,        \* the input a function under check is applied to
    res,        \* what it returned ("none" before the call)
    rw          \* the ResponseWriter a handler works on, and what becomes of it

vars == <<srv, conns, panicked, arg, res, rw>>

\* All byte strings over alphabet of length at most n.
SeqsUpTo(alphabet, n) == UNION {[1..k -> alphabet] : k \in 0..n}

-----------------------------------------------------------------------------
(* Header blocks: splitRequestHeaders and parseRequestHeaders              *)

MaxBlockLen == 5

\* CR, LF, SP, ':' and 'a'
BlockAlphabet == {CR, LF, SP, 58, 97}

\* "A: one\r\nB: two\r\n three\r\nC: four"
BlockFolded ==
    <<65, 58, 32, 111, 110, 101, 13, 10, 66, 58, 32, 116, 119, 111, 13, 10,
      32, 116, 104, 114, 101, 101, 13, 10, 67, 58, 32, 102, 111, 117, 114>>

\* "X-Test: a\r\n\tb\r\nX-Next: c\r\n d"
BlockScenario3 ==
    <<88, 45, 84, 101, 115, 116, 58, 32, 97, 13, 10, 9, 98, 13, 10, 88, 45,
      78, 101, 120, 116, 58, 32, 99, 13, 10, 32, 100>>

\* "X: \t a \t\r\nY:\r\n b\r\n "
BlockTrailingLws ==
    <<88, 58, 32, 9, 32, 97, 32, 9, 13, 10, 89, 58, 13, 10, 32, 98, 13, 10, 32>>

\* "X: a\r\nX: b "
BlockDuplicate ==
    <<88, 58, 32, 97, 13, 10, 88, 58, 32, 98, 32>>

\* "Expires: Sun, 06 Nov 1994 08:49:37 GMT"
BlockExpires ==
    <<69, 120, 112, 105, 114, 101, 115, 58, 32, 83, 117, 110, 44, 32, 48, 54,
      32, 78, 111, 118, 32, 49, 57, 57, 52, 32, 48, 56, 58, 52, 57, 58, 51,
      55, 32, 71, 77, 84>>

\* "Date: Mon, 07 Nov 1994 08:49:37 GMT\r\nExpires: Sun, 06 Nov 1994 08:49:37 GMT"
BlockDateThenExpires ==
    <<68, 97, 116, 101, 58, 32, 77, 111, 110, 44, 32, 48, 55, 32, 78, 111,
      118, 32, 49, 57, 57, 52, 32, 48, 56, 58, 52, 57, 58, 51, 55, 32, 71,
      77, 84, 13, 10, 69, 120, 112, 105, 114, 101, 115, 58, 32, 83, 117, 110,
      44, 32, 48, 54, 32, 78, 111, 118, 32, 49, 57, 57, 52, 32, 48, 56, 58,
      52, 57, 58, 51, 55, 32, 71, 77, 84>>

\* "Expires: Sunday, 06-Nov-94 08:49:37 GMT\r\nDate: Mon, 07 Nov 1994 08:49:37 GMT"
BlockExpiresThenDate ==
    <<69, 120, 112, 105, 114, 101, 115, 58, 32, 83, 117, 110, 100, 97, 121,
      44, 32, 48, 54, 45, 78, 111, 118, 45, 57, 52, 32, 48, 56, 58, 52, 57,
      58, 51, 55, 32, 71, 77, 84, 13, 10, 68, 97, 116, 101, 58, 32, 77, 111,
      110, 44, 32, 48, 55, 32, 78, 111, 118, 32, 49, 57, 57, 52, 32, 48, 56,
      58, 52, 57, 58, 51, 55, 32, 71, 77, 84>>

\* "Date: Sun Nov  6 08:49:37 1994"
BlockDateOnly ==
    <<68, 97, 116, 101, 58, 32, 83, 117, 110, 32, 78, 111, 118, 32, 32, 54,
      32, 48, 56, 58, 52, 57, 58, 51, 55, 32, 49, 57, 57, 52>>

\* "Date: Sun, 06 Nov 1994 08:49:37 EST"
BlockDateEst ==
    <<68, 97, 116, 101, 58, 32, 83, 117, 110, 44, 32, 48, 54, 32, 78, 111,
      118, 32, 49, 57, 57, 52, 32, 48, 56, 58, 52, 57, 58, 51, 55, 32, 69,
      83, 84>>

\* "Last-Modified: Sun, 06 Nov 1994 08:49:37 GMT\r\nIf-Modified-Since: Mon, 07 Nov 1994 08:49:37 GMT"
BlockModified ==
    <<76, 97, 115, 116, 45, 77, 111, 100, 105, 102, 105, 101, 100, 58, 32,
      83, 117, 110, 44, 32, 48, 54, 32, 78, 111, 118, 32, 49, 57, 57, 52, 32,
      48, 56, 58, 52, 57, 58, 51, 55, 32, 71, 77, 84, 13, 10, 73, 102, 45,
      77, 111, 100, 105, 102, 105, 101, 100, 45, 83, 105, 110, 99, 101, 58,
      32, 77, 111, 110, 44, 32, 48, 55, 32, 78, 111, 118, 32, 49, 57, 57, 52,
      32, 48, 56, 58, 52, 57, 58, 51, 55, 32, 71, 77, 84>>

\* "Content-Length: 5\r\nContent-Encoding: X-Gzip"
BlockLength ==
    <<67, 111, 110, 116, 101, 110, 116, 45, 76, 101, 110, 103, 116, 104, 58,
      32, 53, 13, 10, 67, 111, 110, 116, 101, 110, 116, 45, 69, 110, 99, 111,
      100, 105, 110, 103, 58, 32, 88, 45, 71, 122, 105, 112>>

\* "Content-Length: 5 "
BlockBadLength ==
    <<67, 111, 110, 116, 101, 110, 116, 45, 76, 101, 110, 103, 116, 104, 58,
      32, 53, 32>>

\* "X: ab"
BlockControl ==
    <<88, 58, 32, 97, 1, 98>>

\* BlockFolded with a final CRLF
BlockTerminated == BlockFolded \o Crlf

CuratedBlocks ==
    {BlockFolded, BlockTerminated, BlockScenario3, BlockTrailingLws, BlockDuplicate,
     BlockExpires, BlockDateThenExpires, BlockExpiresThenDate, BlockDateOnly,
     BlockDateEst, BlockModified, BlockLength, BlockBadLength, BlockControl}

HeaderBlocks == SeqsUpTo(BlockAlphabet, MaxBlockLen) \cup CuratedBlocks

ServerIdle == [state |-> "unused"]

NoWriter == [pc |-> "unused"]

InitHeaders ==
    /\ arg \in HeaderBlocks
    /\ res = [fn |-> "none"]
    /\ srv = ServerIdle
    /\ conns = <<>>
    /\ panicked = FALSE
    /\ rw = NoWriter

SplitHeaders ==
    /\ res.fn = "none"
    /\ res' = [fn |-> "splitRequestHeaders", parts |-> splitRequestHeaders(arg)]
    /\ UNCHANGED <<rw, srv, conns, panicked, arg>>

ParseHeaders ==
    /\ res.fn = "none"
    /\ res' = [fn |-> "parseRequestHeaders", out |-> parseRequestHeaders(arg)]
    /\ UNCHANGED <<rw, srv, conns, panicked, arg>>

NextHeaders == SplitHeaders \/ ParseHeaders

SpecHeaders == InitHeaders /\ [][NextHeaders]_vars

-----------------------------------------------------------------------------
(* Claims about the header block                                           *)

IsSpHt(b) == b = SP \/ b = HT

\* 0-based positions of the CRLFs of data that no SP or HT follows.
SeparatorCrlfs(data) ==
    {i \in 0..(Len(data) - 2) :
        /\ At(data, i) = CR
        /\ At(data, i + 1) = LF
        /\ ~(i + 2 < Len(data) /\ IsSpHt(At(data, i + 2)))}

\* 0-based positions of the CRLFs of data that an SP or HT follows.
FoldingCrlfs(data) ==
    {i \in 0..(Len(data) - 3) :
        At(data, i) = CR /\ At(data, i + 1) = LF /\ IsSpHt(At(data, i + 2))}

EndsWithSeparator(data) == (Len(data) - 2) \in SeparatorCrlfs(data)

\* C6: splitRequestHeaders cuts the block at exactly the CRLFs that no SP or
\* HT follows: the fields, joined by CRLF in the order returned, give back
\* the block (less a final CRLF whose empty last segment is dropped), there
\* is one field per separating CRLF, and no field holds a separating CRLF,
\* so every CRLF followed by SP or HT lies inside a field.
C6_SplitAtUnfoldedCrlf ==
    res.fn = "splitRequestHeaders" =>
        LET parts == res.parts
            n     == Cardinality(SeparatorCrlfs(arg))
        IN  /\ \A k \in 1..Len(parts) : SeparatorCrlfs(parts[k]) = {}
            /\ IF arg = <<>> THEN parts = <<>>
               ELSE IF EndsWithSeparator(arg)
               THEN Len(parts) = n /\ Join(parts, Crlf) \o Crlf = arg
               ELSE Len(parts) = n + 1 /\ Join(parts, Crlf) = arg

\* A block with a folded field, a separator and a dropped empty last segment.
C6_Witness ==
    /\ res.fn = "splitRequestHeaders"
    /\ FoldingCrlfs(arg) # {}
    /\ EndsWithSeparator(arg)
    /\ Len(res.parts) >= 2
    /\ \E k \in 1..Len(res.parts) : FoldingCrlfs(res.parts[k]) # {}

\* The value the claim describes: s less its longest prefix made of LWS
\* sequences ([CRLF] 1*(SP | HT)); what remains does not begin with LWS.
IsLwsRun(p) ==
    /\ \A k \in 1..Len(p) : p[k] \in {CR, LF, SP, HT}
    /\ \A k \in 1..Len(p) :
          /\ p[k] = CR => (k + 2 <= Len(p) /\ p[k + 1] = LF /\ IsSpHt(p[k + 2]))
          /\ p[k] = LF => (k > 1 /\ p[k - 1] = CR)

BeginsWithLws(v) ==
    \/ Len(v) >= 1 /\ IsSpHt(v[1])
    \/ Len(v) >= 3 /\ v[1] = CR /\ v[2] = LF /\ IsSpHt(v[3])

LeadingLwsRemoved(s) ==
    LET cut == CHOOSE k \in 0..Len(s) :
                   /\ IsLwsRun(SubSeq(s, 1, k))
                   /\ ~BeginsWithLws(SubSeq(s, k + 1, Len(s)))
    IN  SubSeq(s, cut + 1, Len(s))

AfterFirstColon(field) == SliceFrom(field, IndexByte(field, 58) + 1)

FieldName(field) == TrimRight(Slice(field, 0, IndexByte(field, 58)))

\* C7: for every field of an accepted block, the raw map (and Unrecognized,
\* for a name that is not recognized) holds under the field's name the bytes
\* after the first ':' less their leading LWS only; a later field of the same
\* name replaces an earlier one.
C7_RawValueKeepsFolding ==
    (res.fn = "parseRequestHeaders" /\ res.out.err = "nil") =>
        LET fields == splitRequestHeaders(arg)
            h      == res.out.headers
        IN  \A k \in 1..Len(fields) :
                LET name  == FieldName(fields[k])
                    value == LeadingLwsRemoved(AfterFirstColon(fields[k]))
                IN  (\A j \in (k + 1)..Len(fields) : FieldName(fields[j]) # name) =>
                        /\ name \in DOMAIN h.raw
                        /\ h.raw[name] = value
                        /\ name \notin RecognizedNames =>
                               /\ name \in DOMAIN h.Unrecognized
                               /\ h.Unrecognized[name] = value

\* An accepted block with a value that lost leading LWS and kept a folding
\* CRLF and trailing LWS.
C7_Witness ==
    /\ res.fn = "parseRequestHeaders"
    /\ res.out.err = "nil"
    /\ \E name \in DOMAIN res.out.headers.raw :
          LET v == res.out.headers.raw[name]
          IN  /\ FoldingCrlfs(v) # {}
              /\ Len(v) > 0 /\ IsSpHt(v[Len(v)])
    /\ \E k \in 1..Len(splitRequestHeaders(arg)) :
          BeginsWithLws(AfterFirstColon(splitRequestHeaders(arg)[k]))

\* C8: after a block with an Expires header, Headers.Expires is the parsed
\* Expires instant and Headers.Date is the Date header's instant, or absent
\* when the block has no Date header.
C8_ExpiresOwnField ==
    (/\ res.fn = "parseRequestHeaders"
     /\ res.out.err = "nil"
     /\ HExpires \in DOMAIN res.out.headers.raw) =>
        LET h == res.out.headers
        IN  /\ h.Expires = ParseDate(h.raw[HExpires]).date
            /\ h.Date = IF HDate \in DOMAIN h.raw
                        THEN ParseDate(h.raw[HDate]).date
                        ELSE ZeroTime

-----------------------------------------------------------------------------
(* SpecParse: parseRequest applied to what one client sends                *)

MaxUriLen == 3

\* '/', 'a', '%', '4', ';', '?' and CR
UriAlphabet == {ByteSeparator, 97, 37, 52, ByteParam, ByteQuery, CR}

\* ""
BodyNone ==
    <<>>

\* "ab"
BodyAb ==
    <<97, 98>>

\* "abc"
BodyAbc ==
    <<97, 98, 99>>

\* "hel"
BodyHel ==
    <<104, 101, 108>>

\* "hello"
BodyHello ==
    <<104, 101, 108, 108, 111>>

\* "abcdefghijkl"
BodyTwelve ==
    <<97, 98, 99, 100, 101, 102, 103, 104, 105, 106, 107, 108>>

\* the LZW end code 257 as the first nine bits, low bit first
BodyLzwEnd == <<1, 1>>

Bodies ==
    {BodyNone, BodyAb, BodyAbc, BodyHel, BodyHello, BodyTwelve, BodyLzwEnd}

\* "HTTP/1.0"
VersionOneZero ==
    <<72, 84, 84, 80, 47, 49, 46, 48>>

\* "GET / HTTP/1.0\r\n"
LineGetRoot ==
    <<71, 69, 84, 32, 47, 32, 72, 84, 84, 80, 47, 49, 46, 48, 13, 10>>

\* "HEAD /a;p?q HTTP/1.0\r\n"
LineHeadParams ==
    <<72, 69, 65, 68, 32, 47, 97, 59, 112, 63, 113, 32, 72, 84, 84, 80, 47,
      49, 46, 48, 13, 10>>

\* "POST /submit HTTP/1.0\r\n"
LinePostSubmit ==
    <<80, 79, 83, 84, 32, 47, 115, 117, 98, 109, 105, 116, 32, 72, 84, 84,
      80, 47, 49, 46, 48, 13, 10>>

\* "POST / HTTP/1.0\r\n"
LinePostRoot ==
    <<80, 79, 83, 84, 32, 47, 32, 72, 84, 84, 80, 47, 49, 46, 48, 13, 10>>

\* "\rGET / HTTP/1.0\r\n"
LineLeadingCr ==
    <<13, 71, 69, 84, 32, 47, 32, 72, 84, 84, 80, 47, 49, 46, 48, 13, 10>>

\* "GET / HTTP/1.0\r\r\n"
LineDoubleCr ==
    <<71, 69, 84, 32, 47, 32, 72, 84, 84, 80, 47, 49, 46, 48, 13, 13, 10>>

\* "GET / HTTP/1.0\n"
LineBareLf ==
    <<71, 69, 84, 32, 47, 32, 72, 84, 84, 80, 47, 49, 46, 48, 10>>

\* "GET / HTTP/1.0"
LineNoNewline ==
    <<71, 69, 84, 32, 47, 32, 72, 84, 84, 80, 47, 49, 46, 48>>

\* "GET  HTTP/1.0\r\n"
LineEmptyUri ==
    <<71, 69, 84, 32, 32, 72, 84, 84, 80, 47, 49, 46, 48, 13, 10>>

\* "GET a HTTP/1.0\r\n"
LineRelPath ==
    <<71, 69, 84, 32, 97, 32, 72, 84, 84, 80, 47, 49, 46, 48, 13, 10>>

\* "GET //h/ HTTP/1.0\r\n"
LineNetPath ==
    <<71, 69, 84, 32, 47, 47, 104, 47, 32, 72, 84, 84, 80, 47, 49, 46, 48,
      13, 10>>

\* "GET //h\x01 HTTP/1.0\r\n"
LineNetLocJunk ==
    <<71, 69, 84, 32, 47, 47, 104, 1, 32, 72, 84, 84, 80, 47, 49, 46, 48,
      13, 10>>

\* "PUT / HTTP/1.0\r\n"
LinePut ==
    <<80, 85, 84, 32, 47, 32, 72, 84, 84, 80, 47, 49, 46, 48, 13, 10>>

\* "GET / HTTP/1.0 \r\n"
LineFourParts ==
    <<71, 69, 84, 32, 47, 32, 72, 84, 84, 80, 47, 49, 46, 48, 32, 13, 10>>

\* " GET / HTTP/1.0\r\n"
LineLeadingSpace ==
    <<32, 71, 69, 84, 32, 47, 32, 72, 84, 84, 80, 47, 49, 46, 48, 13, 10>>

\* "xGET / HTTP/1.0\r\n"
LineJunkBefore ==
    <<120, 71, 69, 84, 32, 47, 32, 72, 84, 84, 80, 47, 49, 46, 48, 13, 10>>

\* "GET /%zz HTTP/1.0\r\n"
LineBadEscape ==
    <<71, 69, 84, 32, 47, 37, 122, 122, 32, 72, 84, 84, 80, 47, 49, 46, 48,
      13, 10>>

\* "GET / HTTP/0.9\r\n"
LineVersionZero ==
    <<71, 69, 84, 32, 47, 32, 72, 84, 84, 80, 47, 48, 46, 57, 13, 10>>

\* "GET / HTTP/+1.-0\r\n"
LineVersionSigned ==
    <<71, 69, 84, 32, 47, 32, 72, 84, 84, 80, 47, 43, 49, 46, 45, 48, 13,
      10>>

\* "GET /\ra HTTP/1.0\r\n"
LineCrInside ==
    <<71, 69, 84, 32, 47, 13, 97, 32, 72, 84, 84, 80, 47, 49, 46, 48, 13,
      10>>

\* "GET /\r\n"
LineTwoParts ==
    <<71, 69, 84, 32, 47, 13, 10>>

\* "GET /abcdefghijabcdefghijabcdefghijabcdefghijabcdefghijabcdefghij HTTP/1.0\r\n"
LineTooLong ==
    <<71, 69, 84, 32, 47, 97, 98, 99, 100, 101, 102, 103, 104, 105, 106, 97,
      98, 99, 100, 101, 102, 103, 104, 105, 106, 97, 98, 99, 100, 101, 102,
      103, 104, 105, 106, 97, 98, 99, 100, 101, 102, 103, 104, 105, 106, 97,
      98, 99, 100, 101, 102, 103, 104, 105, 106, 97, 98, 99, 100, 101, 102,
      103, 104, 105, 106, 32, 72, 84, 84, 80, 47, 49, 46, 48, 13, 10>>

\* ""
HeadNone ==
    <<>>

\* "Content-Length: 3\r\n"
HeadLength3 ==
    <<67, 111, 110, 116, 101, 110, 116, 45, 76, 101, 110, 103, 116, 104, 58,
      32, 51, 13, 10>>

\* "Content-Length: 5\r\n"
HeadLength5 ==
    <<67, 111, 110, 116, 101, 110, 116, 45, 76, 101, 110, 103, 116, 104, 58,
      32, 53, 13, 10>>

\* "Content-Length: 11\r\n"
HeadLength11 ==
    <<67, 111, 110, 116, 101, 110, 116, 45, 76, 101, 110, 103, 116, 104, 58,
      32, 49, 49, 13, 10>>

\* "Content-Length: 12\r\n"
HeadLength12 ==
    <<67, 111, 110, 116, 101, 110, 116, 45, 76, 101, 110, 103, 116, 104, 58,
      32, 49, 50, 13, 10>>

\* "Content-Length: 5\r\nX-Filler: abcdefghijklmnop\r\n"
HeadLength5Padded ==
    <<67, 111, 110, 116, 101, 110, 116, 45, 76, 101, 110, 103, 116, 104, 58,
      32, 53, 13, 10, 88, 45, 70, 105, 108, 108, 101, 114, 58, 32, 97, 98, 99,
      100, 101, 102, 103, 104, 105, 106, 107, 108, 109, 110, 111, 112, 13,
      10>>

\* "X-Filler: abcdefghijabcdefghijabcdefghijabcdefghijabcdefghijabcdefghij\r\n"
HeadTooLong ==
    <<88, 45, 70, 105, 108, 108, 101, 114, 58, 32, 97, 98, 99, 100, 101,
      102, 103, 104, 105, 106, 97, 98, 99, 100, 101, 102, 103, 104, 105, 106,
      97, 98, 99, 100, 101, 102, 103, 104, 105, 106, 97, 98, 99, 100, 101,
      102, 103, 104, 105, 106, 97, 98, 99, 100, 101, 102, 103, 104, 105, 106,
      97, 98, 99, 100, 101, 102, 103, 104, 105, 106, 13, 10>>

\* "Content-Length: 99999999999\r\n"
HeadLengthHuge ==
    <<67, 111, 110, 116, 101, 110, 116, 45, 76, 101, 110, 103, 116, 104, 58,
      32, 57, 57, 57, 57, 57, 57, 57, 57, 57, 57, 57, 13, 10>>

\* "Content-Length: 10\r\nX-Foo: "Test"\r\n"
HeadScenario4 ==
    <<67, 111, 110, 116, 101, 110, 116, 45, 76, 101, 110, 103, 116, 104, 58,
      32, 49, 48, 13, 10, 88, 45, 70, 111, 111, 58, 32, 34, 84, 101, 115, 116,
      34, 13, 10>>

\* "X: a\x01b\r\n"
HeadControl ==
    <<88, 58, 32, 97, 1, 98, 13, 10>>

\* "Bad\r\n"
HeadNoColon ==
    <<66, 97, 100, 13, 10>>

\* "B d: x\r\n"
HeadBadName ==
    <<66, 32, 100, 58, 32, 120, 13, 10>>

\* "X-Test: a\r\n\tb\r\n"
HeadFolded ==
    <<88, 45, 84, 101, 115, 116, 58, 32, 97, 13, 10, 9, 98, 13, 10>>

\* "Content-Length: 3\r\nContent-Encoding: gzip\r\n"
HeadGzip ==
    <<67, 111, 110, 116, 101, 110, 116, 45, 76, 101, 110, 103, 116, 104, 58,
      32, 51, 13, 10, 67, 111, 110, 116, 101, 110, 116, 45, 69, 110, 99, 111,
      100, 105, 110, 103, 58, 32, 103, 122, 105, 112, 13, 10>>

\* "Content-Length: 2\r\nContent-Encoding: compress\r\n"
HeadCompress ==
    <<67, 111, 110, 116, 101, 110, 116, 45, 76, 101, 110, 103, 116, 104, 58,
      32, 50, 13, 10, 67, 111, 110, 116, 101, 110, 116, 45, 69, 110, 99, 111,
      100, 105, 110, 103, 58, 32, 99, 111, 109, 112, 114, 101, 115, 115, 13,
      10>>

\* "Content-Length: 3\r\nContent-Encoding: identity\r\n"
HeadIdentity ==
    <<67, 111, 110, 116, 101, 110, 116, 45, 76, 101, 110, 103, 116, 104, 58,
      32, 51, 13, 10, 67, 111, 110, 116, 101, 110, 116, 45, 69, 110, 99, 111,
      100, 105, 110, 103, 58, 32, 105, 100, 101, 110, 116, 105, 116, 121, 13,
      10>>

CuratedLines ==
    {LineGetRoot,
     LineHeadParams,
     LinePostSubmit,
     LinePostRoot,
     LineLeadingCr,
     LineDoubleCr,
     LineBareLf,
     LineNoNewline,
     LineEmptyUri,
     LineRelPath,
     LineNetPath,
     LineNetLocJunk,
     LinePut,
     LineFourParts,
     LineLeadingSpace,
     LineJunkBefore,
     LineBadEscape,
     LineVersionZero,
     LineVersionSigned,
     LineCrInside,
     LineTwoParts,
     LineTooLong}

HeaderSections ==
    {HeadNone,
     HeadLength3,
     HeadLength5,
     HeadLength11,
     HeadLength12,
     HeadLength5Padded,
     HeadTooLong,
     HeadLengthHuge,
     HeadScenario4,
     HeadControl,
     HeadNoColon,
     HeadBadName,
     HeadFolded,
     HeadGzip,
     HeadCompress,
     HeadIdentity}

\* "GET <uri> HTTP/1.0\r\n" for every short byte string <uri>
GeneratedLines ==
    {MethodGet \o <<SP>> \o u \o <<SP>> \o VersionOneZero \o Crlf :
        u \in SeqsUpTo(UriAlphabet, MaxUriLen)}

\* What a client sends: a first line, header lines, the empty line, a body.
Wire(a) == a.line \o a.head \o Crlf \o a.body

ClientInputs ==
    [line : GeneratedLines, head : {HeadNone}, body : {BodyNone}]
        \cup [line : CuratedLines, head : HeaderSections, body : Bodies]

InitParse ==
    /\ arg \in ClientInputs
    /\ res = [fn |-> "none"]
    /\ srv = ServerIdle
    /\ conns = <<>>
    /\ panicked = FALSE
    /\ rw = NoWriter

ParseRequest ==
    /\ res.fn = "none"
    /\ res' = [fn  |-> "parseRequest",
               out |-> parseRequest(Wire(arg), MaxHeaderBytes, MaxBodyBytes)]
    /\ UNCHANGED <<rw, srv, conns, panicked, arg>>

NextParse == ParseRequest

SpecParse == InitParse /\ [][NextParse]_vars

-----------------------------------------------------------------------------
(* Claims about parseRequest                                               *)

WellFormedLines == {LineGetRoot, LineHeadParams, LinePostSubmit, LinePostRoot}

\* Header sections that are well formed and name no Content-Encoding.
WellFormedHeads ==
    {HeadNone, HeadLength3, HeadLength5, HeadLength5Padded, HeadFolded}

DeclaredLength(head) ==
    IF head = HeadLength3 THEN 3
    ELSE IF head \in {HeadLength5, HeadLength5Padded} THEN 5
    ELSE 0

WithinCaps(a) ==
    /\ a.line \in WellFormedLines
    /\ a.head \in WellFormedHeads
    /\ Len(a.line) + Len(a.head) + Len(Crlf) <= MaxHeaderBytes
    /\ DeclaredLength(a.head) <= MaxBodyBytes
    /\ Len(a.body) = DeclaredLength(a.head)

\* C3: a well-formed request whose request line and headers fit in
\* MaxHeaderBytes, whose Content-Length is at most MaxBodyBytes and whose
\* body arrives in full is parsed without error, and Body is the bytes sent.
C3_BodyWithinCaps ==
    (res.fn = "parseRequest" /\ WithinCaps(arg)) =>
        /\ res.out.err = "nil"
        /\ res.out.request.Body = arg.body

\* The request line and the header block were read and parsed.
HeadersParsed == res.fn = "parseRequest" /\ res.out.ret \notin {33, 37, 42, 49, 60}

\* C4: when the request line and the headers parse and the declared
\* Content-Length exceeds MaxBodyBytes, parseRequest returns a ClientError
\* without having made or filled a body buffer.
C4_LengthCapBeforeBody ==
    (HeadersParsed /\ res.out.headers.ContentLength > MaxBodyBytes) =>
        /\ res.out.err = "ClientError"
        /\ res.out.alloc = -1
        /\ res.out.filled = 0

\* A Content-Length one above the cap, with that many body bytes waiting.
C4_Witness ==
    /\ HeadersParsed
    /\ res.out.headers.ContentLength = MaxBodyBytes + 1
    /\ Len(arg.body) >= res.out.headers.ContentLength
    /\ res.out.ret = 63

\* C5: every failure of parseRequest that the request bytes cause (all but
\* the failure to decode an encoded body) is a ClientError.
C5_RequestFailuresAreClientErrors ==
    (res.fn = "parseRequest" /\ res.out.err # "nil" /\ res.out.ret # 74) =>
        res.out.err = "ClientError"

\* The bytes sent up to and including the first LF.
FirstLine(wire) ==
    IF IndexByte(wire, LF) = -1 THEN wire
    ELSE Slice(wire, 0, IndexByte(wire, LF) + 1)

\* Method SP Request-URI SP HTTP-Version CRLF, with no other CR or LF, the
\* method first and the URI beginning with '/'.
ExactRequestLine(l) ==
    /\ HasSuffix(l, Crlf)
    /\ LET core  == Slice(l, 0, Len(l) - 2)
           parts == Split(core, SP)
       IN  /\ \A k \in 1..Len(core) : core[k] \notin {CR, LF}
           /\ Len(parts) = 3
           /\ parts[1] \in {MethodGet, MethodHead, MethodPost}
           /\ HasPrefix(parts[2], <<ByteSeparator>>)

\* C9: parseRequest gets past the first line only if that line is exactly
\* Method SP Request-URI SP HTTP-Version CRLF.
C9_RequestLineExact ==
    (res.fn = "parseRequest" /\ res.out.ret \notin {33, 37, 42}) =>
        ExactRequestLine(FirstLine(Wire(arg)))

-----------------------------------------------------------------------------
(* Spec: Serve and the tasks that run handle, one per accepted connection  *)

MaxConns == 2

DefaultPort == 8080

\* What the clients of the model send.
ServerWires ==
    {Wire([line |-> LineGetRoot, head |-> HeadNone, body |-> BodyNone]),
     Wire([line |-> LinePostSubmit, head |-> HeadLength5, body |-> BodyHello]),
     Wire([line |-> LinePut, head |-> HeadNone, body |-> BodyNone]),
     Wire([line |-> LineEmptyUri, head |-> HeadNone, body |-> BodyNone]),
     Wire([line |-> LineGetRoot, head |-> HeadGzip, body |-> BodyAbc])}

\* What the user's handler does with the writer it is given: 0 leaves it
\* alone, any other number is passed to SetStatus.
HandlerChoices == {0, StatusNotFound, 999}

\* A task about to run handle(c); conn is "nil" when Accept failed. trace
\* lists the statements of handle the task has begun, closes counts the
\* calls of c.Close(), written holds the bytes written to the connection,
\* handed the writers passed to the handler, rw the handler's own copy.
NewTask(conn, wire) ==
    [conn         |-> conn,
     wire         |-> wire,
     pc           |-> "parse",
     err          |-> "nil",
     request      |-> NoRequest,
     closes       |-> 0,
     written      |-> <<>>,
     trace        |-> <<>>,
     handlerCalls |-> 0,
     handed       |-> <<>>,
     touched      |-> FALSE,
     rw           |-> response0]

Init ==
    /\ srv \in [state : {"new"}, Handler : BOOLEAN, Port : {0, 8081}]
    /\ conns = <<>>
    /\ panicked = FALSE
    /\ arg = <<>>
    /\ res = [fn |-> "none"]
    /\ rw = NoWriter

\* Serve up to the accept loop.
Serve ==
    /\ ~panicked
    /\ srv.state = "new"
    /\ \E listenOk \in BOOLEAN :
          srv' = IF ~srv.Handler THEN [srv EXCEPT !.state = "returned"]
                 ELSE [srv EXCEPT !.Port  = IF @ = 0 THEN DefaultPort ELSE @,
                                  !.state = IF listenOk THEN "listening"
                                            ELSE "returned"]
    /\ UNCHANGED <<rw, conns, panicked, arg, res>>

\* One turn of the accept loop: a task is started whether or not Accept
\* returned an error.
Accept ==
    /\ ~panicked
    /\ srv.state = "listening"
    /\ Len(conns) < MaxConns
    /\ \E failed \in BOOLEAN, w \in ServerWires :
          conns' = Append(conns, IF failed THEN NewTask("nil", <<>>)
                                 ELSE NewTask("open", w))
    /\ UNCHANGED <<rw, srv, panicked, arg, res>>

\* The task t once parseRequest has returned r.
parsed(t, r) ==
    [t EXCEPT !.err     = r.err,
              !.request = r.request,
              !.trace   = Append(@, "parse"),
              !.pc      = IF r.err # "nil" THEN "errclose" ELSE "dispatch"]

\* handle: request, err := parseRequest(c)
Parse(i) ==
    /\ ~panicked
    /\ conns[i].pc = "parse"
    /\ IF conns[i].conn = "nil"
       THEN /\ panicked' = TRUE
            /\ conns' = [conns EXCEPT ![i].pc = "panicked"]
       ELSE /\ conns' = [conns EXCEPT ![i] =
                   parsed(@, parseRequest(@.wire, MaxHeaderBytes, MaxBodyBytes))]
            /\ UNCHANGED panicked
    /\ UNCHANGED <<rw, srv, arg, res>>

\* handle: the body of "if err != nil": the error is logged, the connection
\* closed, and control falls through to the next statement.
ErrorClose(i) ==
    /\ ~panicked
    /\ conns[i].pc = "errclose"
    /\ conns' = [conns EXCEPT ![i].conn   = "closed",
                              ![i].closes = @ + 1,
                              ![i].trace  = Append(@, "close"),
                              ![i].pc     = "dispatch"]
    /\ UNCHANGED <<rw, srv, panicked, arg, res>>

\* handle: the call of s.Handler.ServeHTTP on the request pointed to and on
\* ResponseWriter{response: response{}}. Following the pointer panics when
\* request is nil; otherwise the handler runs
\* on its own copy of the writer.
Dispatch(i) ==
    /\ ~panicked
    /\ conns[i].pc = "dispatch"
    /\ IF conns[i].request.nil
       THEN /\ panicked' = TRUE
            /\ conns' = [conns EXCEPT ![i].trace = Append(@, "dispatch"),
                                      ![i].pc    = "panicked"]
       ELSE /\ \E c \in HandlerChoices :
                  conns' = [conns EXCEPT
                               ![i].handlerCalls = @ + 1,
                               ![i].handed  = Append(@, response0),
                               ![i].touched = c # 0,
                               ![i].rw      = IF c = 0 THEN response0
                                              ELSE SetStatus(response0, c),
                               ![i].trace   = Append(@, "dispatch"),
                               ![i].pc      = "close"]
            /\ UNCHANGED panicked
    /\ UNCHANGED <<rw, srv, arg, res>>

\* handle: the final c.Close()
Close(i) ==
    /\ ~panicked
    /\ conns[i].pc = "close"
    /\ conns' = [conns EXCEPT ![i].conn   = "closed",
                              ![i].closes = @ + 1,
                              ![i].trace  = Append(@, "close"),
                              ![i].pc     = "done"]
    /\ UNCHANGED <<rw, srv, panicked, arg, res>>

Next ==
    \/ Serve
    \/ Accept
    \/ \E i \in 1..Len(conns) : Parse(i)
    \/ \E i \in 1..Len(conns) : ErrorClose(i)
    \/ \E i \in 1..Len(conns) : Dispatch(i)
    \/ \E i \in 1..Len(conns) : Close(i)

Spec == Init /\ [][Next]_vars

-----------------------------------------------------------------------------
(* Claims about the connection handler                                     *)

\* C1: on every connection, a request that fails to parse never reaches the
\* handler; once the connection is closed, a ClientError has been answered
\* with a 400 response and a ServerError with a 500 response.
C1_ParseFailureAnswered ==
    \A i \in 1..Len(conns) :
        LET t == conns[i]
        IN  /\ t.err # "nil" => t.handlerCalls = 0
            /\ (t.closes > 0 /\ t.err = "ClientError") =>
                   HasPrefix(t.written, codeMarshal(StatusBadRequest))
            /\ (t.closes > 0 /\ t.err = "ServerError") =>
                   HasPrefix(t.written, codeMarshal(StatusInternalServerError))

StepRank(step) ==
    CASE step = "parse"    -> 1
      [] step = "dispatch" -> 2
      [] step = "prepare"  -> 3
      [] step = "write"    -> 4
      [] step = "close"    -> 5

\* C2: on every connection and under every interleaving, the steps taken
\* come in the order parse, dispatch, body preparation, write, close; the
\* connection is closed at most once and no step follows the close.
C2_StepsInOrderCloseLast ==
    \A i \in 1..Len(conns) :
        LET t == conns[i]
        IN  /\ t.closes <= 1
            /\ \A k \in 1..(Len(t.trace) - 1) :
                   StepRank(t.trace[k]) < StepRank(t.trace[k + 1])

\* "application"
TypeApplication ==
    <<97, 112, 112, 108, 105, 99, 97, 116, 105, 111, 110>>

\* "octet-stream"
SubtypeOctetStream ==
    <<111, 99, 116, 101, 116, 45, 115, 116, 114, 101, 97, 109>>

\* C10: the writer handed to the handler is the default response (status
\* 200, a Date, Content-Type application/octet-stream, no body), and when
\* the handler leaves it alone the bytes written on the connection begin
\* with the status line of 200.
C10_HandlerGetsDefaultResponse ==
    \A i \in 1..Len(conns) :
        LET t == conns[i]
        IN  /\ \A k \in 1..Len(t.handed) :
                   /\ t.handed[k].code = StatusOK
                   /\ ~t.handed[k].headers.date.zero
                   /\ t.handed[k].headers.contentType.Type = TypeApplication
                   /\ t.handed[k].headers.contentType.Subtype = SubtypeOctetStream
                   /\ t.handed[k].body = <<>>
            /\ (t.pc = "done" /\ ~t.touched) =>
                   HasPrefix(t.written, codeMarshal(StatusOK))

-----------------------------------------------------------------------------
(* The response serializer: response.marshal and what it calls             *)

\* "Location"
HLocation ==
    <<76, 111, 99, 97, 116, 105, 111, 110>>

\* "Server"
HServer ==
    <<83, 101, 114, 118, 101, 114>>

\* "WWW-Authenticate"
HWwwAuthenticate ==
    <<87, 87, 87, 45, 65, 117, 116, 104, 101, 110, 116, 105, 99, 97, 116,
      101>>

\* " realm="
RealmEquals ==
    <<32, 114, 101, 97, 108, 109, 61>>

\* a < b for Go strings: byte-wise lexicographic order.
RECURSIVE StringLess(_, _)
StringLess(a, b) ==
    IF Len(b) = 0 THEN FALSE
    ELSE IF Len(a) = 0 THEN TRUE
    ELSE IF a[1] # b[1] THEN a[1] < b[1]
    ELSE StringLess(Tail(a), Tail(b))

\* sort.Strings as it would be if it sorted in descending order.
RECURSIVE sortStringsDescending(_)
sortStringsDescending(keys) ==
    IF keys = {} THEN <<>>
    ELSE LET greatest == CHOOSE k \in keys : \A other \in keys : ~StringLess(k, other)
         IN  <<greatest>> \o sortStringsDescending(keys \ {greatest})

\* sort.Strings on the keys gathered from a map, in whatever order the
\* map was ranged over.
RECURSIVE sortStrings(_)
sortStrings(keys) ==
    IF keys = {} THEN <<>>
    ELSE LET least == CHOOSE k \in keys : \A other \in keys : ~StringLess(other, k)
         IN  <<least>> \o sortStrings(keys \ {least})

getSortedKeys(m) == sortStrings(DOMAIN m)

\* The bytes sep, name, '=', m[name] for each name of keys in turn.
RECURSIVE appendPairs(_, _, _)
appendPairs(keys, m, sep) ==
    IF Len(keys) = 0 THEN <<>>
    ELSE sep \o keys[1] \o <<61>> \o m[keys[1]] \o appendPairs(Tail(keys), m, sep)

\* time.Time.Format(time.RFC1123) on the instants of the model.
timeFormat(t) ==
    CASE t = TimeAt(784111777, "GMT") -> DateRfc1123
      [] t = TimeAt(784198177, "GMT") -> DateNextDay
      [] t = TimeAt(784111777, "EST") -> DateEst

\* MessageTime.marshal
messageTimeMarshal(t) == IF t.zero THEN <<>> ELSE timeFormat(t)

\* The "name=value" parts of PragmaDirectives.marshal.
RECURSIVE pragmaOptions(_, _)
pragmaOptions(keys, options) ==
    IF Len(keys) = 0 THEN <<>>
    ELSE <<keys[1] \o <<61>> \o options[keys[1]]>>
         \o pragmaOptions(Tail(keys), options)

\* PragmaDirectives.marshal
pragmaMarshal(p) ==
    Join(getSortedKeys(p.Flags) \o pragmaOptions(getSortedKeys(p.Options), p.Options),
         <<SP>>)

\* ProductVersion.marshal
productVersionMarshal(pv) ==
    pv.Product
    \o (IF Len(pv.Version) > 0 THEN <<ByteSeparator>> \o pv.Version ELSE <<>>)

\* server.marshal
serverMarshal(s) ==
    Join([k \in 1..Len(s.products) |-> productVersionMarshal(s.products[k])]
         \o s.comments, <<SP>>)

\* challenge.marshal
challengeMarshal(c) ==
    (IF Len(c.scheme) > 0 /\ Len(c.realm) > 0
     THEN c.scheme \o RealmEquals \o c.realm
     ELSE <<>>)
    \o appendPairs(getSortedKeys(c.params), c.params, <<44>>)

\* Methods.marshal
methodsMarshal(m) == Join(m.methods, <<44, SP>>)

\* ContentEncoding.marshal
contentEncodingMarshal(ce) == ce

\* ContentLength.marshal
contentLengthMarshal(cl) == Itoa(cl)

\* ContentType.marshal
contentTypeMarshal(ct) ==
    (IF Len(ct.Type) > 0 /\ Len(ct.Subtype) > 0
     THEN ct.Type \o <<ByteSeparator>> \o ct.Subtype
     ELSE <<>>)
    \o appendPairs(getSortedKeys(ct.Parameters), ct.Parameters, <<ByteParam>>)

\* marshalHeader(n, m), s being m.marshal()
marshalHeader(n, s) ==
    IF Len(s) = 0 THEN s ELSE n \o <<58, SP>> \o s \o Crlf

\* The loop of responseHeaders.marshal over the unrecognized headers.
RECURSIVE marshalUnrecognized(_, _)
marshalUnrecognized(keys, unrecognized) ==
    IF Len(keys) = 0 THEN <<>>
    ELSE keys[1] \o <<58, SP>> \o unrecognized[keys[1]] \o Crlf
         \o marshalUnrecognized(Tail(keys), unrecognized)

\* responseHeaders.marshal(hasBody)
responseHeadersMarshal(h, hasBody) ==
    marshalHeader(HDate, messageTimeMarshal(h.date))
    \o marshalHeader(HPragma, pragmaMarshal(h.pragma))
    \o (IF ~h.location.nil
        THEN marshalHeader(HLocation, absoluteUriMarshal(h.location.uri))
        ELSE <<>>)
    \o marshalHeader(HServer, serverMarshal(h.server))
    \o marshalHeader(HWwwAuthenticate, challengeMarshal(h.wwwAuthenticate))
    \o marshalHeader(HAllow, methodsMarshal(h.allow))
    \o marshalHeader(HContentEncoding, contentEncodingMarshal(h.contentEncoding))
    \o (IF hasBody
        THEN marshalHeader(HContentLength, contentLengthMarshal(h.contentLength))
        ELSE <<>>)
    \o marshalHeader(HContentType, contentTypeMarshal(h.contentType))
    \o marshalHeader(HExpires, messageTimeMarshal(h.expires))
    \o marshalHeader(HLastModified, messageTimeMarshal(h.lastModified))
    \o marshalUnrecognized(getSortedKeys(h.unrecognized), h.unrecognized)
    \o Crlf

\* response.marshal
responseMarshal(r) ==
    codeMarshal(r.code)
    \o responseHeadersMarshal(r.headers, Len(r.body) > 0)
    \o r.body

\* gzip.NewWriter, Write(data), Close on the bodies of the model: the
\* ten-byte member header, a fixed-Huffman block (none for no data), the
\* empty final stored block, CRC-32 and length.
gzipEncode(data) ==
    CASE data = BodyNone ->
             [ok |-> TRUE, out |->
                <<31, 139, 8, 0, 0, 0, 0, 0, 0, 255, 1, 0, 0, 255, 255, 0,
                0, 0, 0, 0, 0, 0, 0>>]
      [] data = BodyHello ->
             [ok |-> TRUE, out |->
                <<31, 139, 8, 0, 0, 0, 0, 0, 0, 255, 202, 72, 205, 201, 201,
                7, 4, 0, 0, 255, 255, 134, 166, 16, 54, 5, 0, 0, 0>>]

\* lzw.NewWriter(w, lzw.LSB, 8), Write(data), Close on the bodies of the
\* model: the clear code, one nine-bit code per byte, the end code.
compressEncode(data) ==
    CASE data = BodyNone ->
             [ok |-> TRUE, out |-> <<0, 3, 2>>]
      [] data = BodyHello ->
             [ok |-> TRUE, out |-> <<0, 209, 148, 97, 195, 230, 77, 64>>]

\* The end of encodeRequestBody: an encoder's failure is a ServerError.
encoded(r) == [err |-> IF r.ok THEN "nil" ELSE "ServerError", body |-> r.out]

\* encodeRequestBody(body, encoding)
encodeRequestBody(body, encoding) ==
    encoded(IF encoding \in {ContentEncodingXGzip, ContentEncodingGZip}
            THEN gzipEncode(body)
            ELSE IF encoding \in {ContentEncodingXCompress, ContentEncodingCompress}
            THEN compressEncode(body)
            ELSE [ok |-> TRUE, out |-> body])

-----------------------------------------------------------------------------
(* response.go: the ResponseWriter calls                                   *)

\* ResponseWriter.SetStatus(c) = nil
SetStatusOk(c) == StatusText(c) # <<>>

\* SetBody as it would be if it stored the body and left Content-Length.
SetBodyKeepsLength(response, data) == [response EXCEPT !.body = data]

\* ResponseWriter.SetBody(data) on the writer's response
SetBody(response, data) ==
    [response EXCEPT !.body = data, !.headers.contentLength = Len(data)]

\* ResponseWriter.SetContentEncoding(ce) = nil
SetContentEncodingOk(ce) == ContentEncodingValidate(ce)

\* ResponseWriter.SetContentEncoding(ce) on the writer's response
SetContentEncoding(response, ce) ==
    IF ~ContentEncodingValidate(ce) THEN response
    ELSE [response EXCEPT !.headers.contentEncoding = ce]

\* ResponseWriter.SetChallenge(scheme, realm) = nil
SetChallengeOk(scheme, realm) ==
    ValidateToken(scheme) /\ ParseUserQuotedString(realm).ok

\* SetChallenge as it would be if it stored the realm as it was passed.
SetChallengeStoresRawRealm(response, scheme, realm) ==
    IF ~SetChallengeOk(scheme, realm) THEN response
    ELSE [response EXCEPT
              !.headers.wwwAuthenticate.scheme = scheme,
              !.headers.wwwAuthenticate.realm  = realm]

\* ResponseWriter.SetChallenge(scheme, realm) on the writer's response
SetChallenge(response, scheme, realm) ==
    IF ~SetChallengeOk(scheme, realm) THEN response
    ELSE [response EXCEPT
              !.headers.wwwAuthenticate.scheme = scheme,
              !.headers.wwwAuthenticate.realm  = ParseUserQuotedString(realm).s]

\* ResponseWriter.Unauthorized(scheme, realm) on the writer's response:
\* what SetStatus and SetChallenge return is dropped.
Unauthorized(response, scheme, realm) ==
    SetChallenge(SetStatus(response, StatusUnauthorized), scheme, realm)

-----------------------------------------------------------------------------
(* SpecWriter: a handler's calls on its ResponseWriter, body preparation   *)
(* and the write of the serialized response                                *)

MaxCalls == 3

\* The codes the handler of the model passes to SetStatus.
StatusChoices == {StatusOK, StatusNotModified, StatusNotFound, 999}

\* The bodies it passes to SetBody.
WriterBodies == {BodyNone, BodyHello}

\* "br"
EncodingBr ==
    <<98, 114>>

\* The encodings it passes to SetContentEncoding.
EncodingChoices == {ContentEncodingGZip, ContentEncodingXCompress, EncodingBr}

\* "Basic"
SchemeBasic ==
    <<66, 97, 115, 105, 99>>

\* "my site"
RealmBare ==
    <<109, 121, 32, 115, 105, 116, 101>>

\* ""my site""
RealmQuoted ==
    <<34, 109, 121, 32, 115, 105, 116, 101, 34>>

\* "my"site"
RealmBroken ==
    <<109, 121, 34, 115, 105, 116, 101>>

\* The schemes and realms it passes to SetChallenge and Unauthorized.
SchemeChoices == {SchemeBasic, <<>>}

RealmChoices == {RealmBare, RealmQuoted, RealmBroken}

\* The writer handle passes to the handler of a request with the given
\* method: ResponseWriter{response: response{}}.
NewWriter(method) ==
    [pc       |-> "handler",
     method   |-> method,
     response |-> response0,
     calls    |-> 0,
     last     |-> [fn |-> "none"],
     bodySet  |-> FALSE,
     b        |-> <<>>,
     written  |-> <<>>]

InitWriter ==
    /\ rw \in {NewWriter(m) : m \in {MethodGet, MethodHead, MethodPost}}
    /\ srv = ServerIdle
    /\ conns = <<>>
    /\ panicked = FALSE
    /\ arg = <<>>
    /\ res = [fn |-> "none"]

CallSetStatus ==
    /\ rw.pc = "handler"
    /\ rw.calls < MaxCalls
    /\ \E c \in StatusChoices :
          rw' = [rw EXCEPT
                    !.response = SetStatus(@, c),
                    !.calls    = @ + 1,
                    !.last     = [fn |-> "SetStatus", c |-> c,
                                  ok |-> SetStatusOk(c),
                                  before |-> rw.response.code]]
    /\ UNCHANGED <<srv, conns, panicked, arg, res>>

CallSetBody ==
    /\ rw.pc = "handler"
    /\ rw.calls < MaxCalls
    /\ \E data \in WriterBodies :
          rw' = [rw EXCEPT
                    !.response = SetBody(@, data),
                    !.calls    = @ + 1,
                    !.last     = [fn |-> "SetBody"],
                    !.bodySet  = TRUE,
                    !.b        = data]
    /\ UNCHANGED <<srv, conns, panicked, arg, res>>

CallSetContentEncoding ==
    /\ rw.pc = "handler"
    /\ rw.calls < MaxCalls
    /\ \E ce \in EncodingChoices :
          rw' = [rw EXCEPT
                    !.response = SetContentEncoding(@, ce),
                    !.calls    = @ + 1,
                    !.last     = [fn |-> "SetContentEncoding",
                                  ok |-> SetContentEncodingOk(ce)]]
    /\ UNCHANGED <<srv, conns, panicked, arg, res>>

CallSetChallenge ==
    /\ rw.pc = "handler"
    /\ rw.calls < MaxCalls
    /\ \E scheme \in SchemeChoices, realm \in RealmChoices :
          rw' = [rw EXCEPT
                    !.response = SetChallenge(@, scheme, realm),
                    !.calls    = @ + 1,
                    !.last     = [fn |-> "SetChallenge", scheme |-> scheme,
                                  realm |-> realm,
                                  ok |-> SetChallengeOk(scheme, realm)]]
    /\ UNCHANGED <<srv, conns, panicked, arg, res>>

CallUnauthorized ==
    /\ rw.pc = "handler"
    /\ rw.calls < MaxCalls
    /\ \E scheme \in SchemeChoices, realm \in RealmChoices :
          rw' = [rw EXCEPT
                    !.response = Unauthorized(@, scheme, realm),
                    !.calls    = @ + 1,
                    !.last     = [fn |-> "Unauthorized", scheme |-> scheme,
                                  realm |-> realm,
                                  before |-> rw.response.headers.wwwAuthenticate]]
    /\ UNCHANGED <<srv, conns, panicked, arg, res>>

\* The response once the body has been encoded as r.
bodyEncoded(response, r) ==
    IF r.err # "nil"
    THEN [response0 EXCEPT !.code = StatusInternalServerError]
    ELSE [response EXCEPT !.body = r.body]

\* Body preparation: for HEAD or status 304 the body is emptied, the
\* Content-Length the writer set staying as it is; otherwise the body is
\* encoded as the writer's Content-Encoding says, an encoding error
\* becoming a 500 response.
prepareBody(response, method) ==
    IF method = MethodHead \/ response.code = StatusNotModified
    THEN [response EXCEPT !.body = <<>>]
    ELSE bodyEncoded(response,
                     encodeRequestBody(response.body,
                                       response.headers.contentEncoding))

\* The handler has returned: body preparation.
PrepareBody ==
    /\ rw.pc = "handler"
    /\ rw' = [rw EXCEPT !.response = prepareBody(@, rw.method),
                        !.pc       = "prepared"]
    /\ UNCHANGED <<srv, conns, panicked, arg, res>>

\* The response is serialized and written to the connection.
WriteResponse ==
    /\ rw.pc = "prepared"
    /\ rw' = [rw EXCEPT !.written = responseMarshal(rw.response),
                        !.pc      = "written"]
    /\ UNCHANGED <<srv, conns, panicked, arg, res>>

NextWriter ==
    \/ CallSetStatus
    \/ CallSetBody
    \/ CallSetContentEncoding
    \/ CallSetChallenge
    \/ CallUnauthorized
    \/ PrepareBody
    \/ WriteResponse

SpecWriter == InitWriter /\ [][NextWriter]_vars


-----------------------------------------------------------------------------
(* response.go: redirects and challenge parameters                         *)

\* "Resource moved to "
ResourceMovedTo ==
    <<82, 101, 115, 111, 117, 114, 99, 101, 32, 109, 111, 118, 101, 100, 32,
      116, 111, 32>>

\* ResponseWriter.SetLocation(u) = nil
SetLocationOk(u) == parseAbsoluteUri(u).ok

\* ResponseWriter.SetLocation(u) on the writer's response
SetLocation(response, u) ==
    IF ~parseAbsoluteUri(u).ok THEN response
    ELSE [response EXCEPT
              !.headers.location = [nil |-> FALSE, uri |-> parseAbsoluteUri(u).uri]]

\* ResponseWriter.redirect(uri) on the writer's response
redirect(response, uri) ==
    IF ~SetLocationOk(uri) THEN response
    ELSE SetBody(SetLocation(response, uri), ResourceMovedTo \o uri)

\* ResponseWriter.Redirect(uri) on the writer's response: SetStatus comes
\* first, and what it returns is dropped.
Redirect(response, uri) ==
    redirect(SetStatus(response, StatusMovedPermanently), uri)

\* ResponseWriter.RedirectTemporary(uri) on the writer's response
RedirectTemporary(response, uri) ==
    redirect(SetStatus(response, StatusMovedTemporarily), uri)

\* ResponseWriter.AddChallengeParameter(name, value) returns an error: the
\* name is no token or the value cannot be quoted.
AddChallengeParameterErr(name, value) ==
    ~ValidateToken(name) \/ ~ParseUserQuotedString(value).ok

\* The assignment params[sname] = parsed.  No code of the package makes
\* the params map of a challenge, so on the writer handle builds it is the
\* nil map, and an assignment to an entry of a nil map panics.
paramsAssignPanics(response) == DOMAIN response.headers.wwwAuthenticate.params = {}

-----------------------------------------------------------------------------
(* SpecSetters: a handler's redirect, Location and challenge calls on its  *)
(* ResponseWriter                                                          *)

\* "http://example.com/a"
UriExample ==
    <<104, 116, 116, 112, 58, 47, 47, 101, 120, 97, 109, 112, 108, 101, 46,
      99, 111, 109, 47, 97>>

\* "example.com/a"
UriNoScheme ==
    <<101, 120, 97, 109, 112, 108, 101, 46, 99, 111, 109, 47, 97>>

\* "http://a b"
UriUnsafe ==
    <<104, 116, 116, 112, 58, 47, 47, 97, 32, 98>>

\* "nonce"
ParamNonce ==
    <<110, 111, 110, 99, 101>>

\* "bad name"
ParamBadName ==
    <<98, 97, 100, 32, 110, 97, 109, 101>>

\* "abc123"
ValueNonce ==
    <<97, 98, 99, 49, 50, 51>>

\* The URIs the handler of the model passes to Redirect, RedirectTemporary
\* and SetLocation.
UriChoices == {UriExample, UriNoScheme, UriUnsafe}

\* The names and values it passes to AddChallengeParameter.
ParamNames == {ParamNonce, ParamBadName}

ParamValues == {ValueNonce, RealmBroken}

CallRedirect ==
    /\ rw.pc = "handler"
    /\ rw.calls < MaxCalls
    /\ \E uri \in UriChoices :
          rw' = [rw EXCEPT
                    !.response = Redirect(@, uri),
                    !.calls    = @ + 1,
                    !.last     = [fn |-> "Redirect", uri |-> uri,
                                  ok |-> SetLocationOk(uri),
                                  before |-> rw.response]]
    /\ UNCHANGED <<srv, conns, panicked, arg, res>>

CallRedirectTemporary ==
    /\ rw.pc = "handler"
    /\ rw.calls < MaxCalls
    /\ \E uri \in UriChoices :
          rw' = [rw EXCEPT
                    !.response = RedirectTemporary(@, uri),
                    !.calls    = @ + 1,
                    !.last     = [fn |-> "RedirectTemporary", uri |-> uri,
                                  ok |-> SetLocationOk(uri),
                                  before |-> rw.response]]
    /\ UNCHANGED <<srv, conns, panicked, arg, res>>

CallSetLocation ==
    /\ rw.pc = "handler"
    /\ rw.calls < MaxCalls
    /\ \E uri \in UriChoices :
          rw' = [rw EXCEPT
                    !.response = SetLocation(@, uri),
                    !.calls    = @ + 1,
                    !.last     = [fn |-> "SetLocation", uri |-> uri,
                                  ok |-> SetLocationOk(uri),
                                  before |-> rw.response]]
    /\ UNCHANGED <<srv, conns, panicked, arg, res>>

\* AddChallengeParameter returns its error and leaves the response as it is.
CallAddChallengeParameter ==
    /\ rw.pc = "handler"
    /\ rw.calls < MaxCalls
    /\ \E name \in ParamNames, value \in ParamValues :
          /\ AddChallengeParameterErr(name, value)
          /\ rw' = [rw EXCEPT
                       !.calls = @ + 1,
                       !.last  = [fn |-> "AddChallengeParameter",
                                  name |-> name, value |-> value,
                                  ok |-> FALSE, before |-> rw.response]]
    /\ UNCHANGED <<srv, conns, panicked, arg, res>>

\* AddChallengeParameter reaches the assignment to the nil params map: the
\* handler's goroutine panics, nothing recovers, and the process ends with
\* nothing serialized.
AddChallengeParameterPanics ==
    /\ rw.pc = "handler"
    /\ rw.calls < MaxCalls
    /\ \E name \in ParamNames, value \in ParamValues :
          /\ ~AddChallengeParameterErr(name, value)
          /\ paramsAssignPanics(rw.response)
          /\ rw' = [rw EXCEPT
                       !.pc    = "panicked",
                       !.calls = @ + 1,
                       !.last  = [fn |-> "AddChallengeParameter",
                                  name |-> name, value |-> value,
                                  ok |-> TRUE, before |-> rw.response]]
    /\ panicked' = TRUE
    /\ UNCHANGED <<srv, conns, arg, res>>

NextSetters ==
    \/ CallSetStatus
    \/ CallRedirect
    \/ CallRedirectTemporary
    \/ CallSetLocation
    \/ CallSetChallenge
    \/ CallUnauthorized
    \/ CallAddChallengeParameter
    \/ AddChallengeParameterPanics

SpecSetters == InitWriter /\ [][NextSetters]_vars


-----------------------------------------------------------------------------
(* Claims about the setters (SpecSetters)                                  *)

\* C27: a setter of the ResponseWriter that returns an error leaves the
\* response as it was before the call; when Redirect or RedirectTemporary
\* fails because the URI is no AbsoluteUri, the status code, the Location
\* and the body are what they were.
C27_FailedSetterLeavesResponse ==
    (/\ rw.last.fn \in {"Redirect", "RedirectTemporary", "SetLocation",
                        "AddChallengeParameter"}
     /\ ~rw.last.ok)
    => /\ rw.response.code = rw.last.before.code
       /\ rw.response.headers.location = rw.last.before.headers.location
       /\ rw.response.body = rw.last.before.body
       /\ rw.response = rw.last.before

\* The value the WWW-Authenticate header is serialized with; the header is
\* left out when it is empty.
ChallengeValue == challengeMarshal(rw.response.headers.wwwAuthenticate)

\* The index past the quoted-string that begins at index i of s, -1 when
\* none begins there.
QuotedEnd(s, i) ==
    IF i < 0 \/ i >= Len(s) \/ At(s, i) # 34 THEN -1
    ELSE IF IndexByte(SliceFrom(s, i + 1), 34) = -1 THEN -1
    ELSE IF \E k \in (i + 1)..(i + IndexByte(SliceFrom(s, i + 1), 34)) :
                ~IsQdTextByte(At(s, k))
    THEN -1
    ELSE i + IndexByte(SliceFrom(s, i + 1), 34) + 2

\* From index i on, s is a run of ",name=<quoted-string>" items.
RECURSIVE ItemsFrom(_, _)
ItemsFrom(s, i) ==
    \/ i = Len(s)
    \/ /\ i >= 0
       /\ i < Len(s)
       /\ At(s, i) = 44
       /\ IndexByte(SliceFrom(s, i + 1), 61) > 0
       /\ ValidateToken(Slice(s, i + 1, i + 1 + IndexByte(SliceFrom(s, i + 1), 61)))
       /\ ItemsFrom(s, QuotedEnd(s, i + 2 + IndexByte(SliceFrom(s, i + 1), 61)))

\* v is "scheme realm=<quoted-string>" and then ",name=<quoted-string>"
\* items, none included.
ChallengeForm(v) ==
    /\ IndexByte(v, SP) > 0
    /\ ValidateToken(Slice(v, 0, IndexByte(v, SP)))
    /\ HasPrefix(SliceFrom(v, IndexByte(v, SP)), RealmEquals)
    /\ ItemsFrom(v, QuotedEnd(v, IndexByte(v, SP) + Len(RealmEquals)))

-----------------------------------------------------------------------------
(* SpecMarshal: response.marshal applied to response values                *)

\* "no-cache"
DirectiveNoCache ==
    <<110, 111, 45, 99, 97, 99, 104, 101>>

\* "max-age"
DirectiveMaxAge ==
    <<109, 97, 120, 45, 97, 103, 101>>

\* "60"
ValueSixty ==
    <<54, 48>>

\* "http"
SchemeHttp ==
    <<104, 116, 116, 112>>

\* "//example.com/a"
PathExample ==
    <<47, 47, 101, 120, 97, 109, 112, 108, 101, 46, 99, 111, 109, 47, 97>>

\* "Go"
ProductGo ==
    <<71, 111>>

\* "1.0"
VersionOne ==
    <<49, 46, 48>>

\* "(build)"
CommentBuild ==
    <<40, 98, 117, 105, 108, 100, 41>>

\* "text"
TypeText ==
    <<116, 101, 120, 116>>

\* "html"
SubtypeHtml ==
    <<104, 116, 109, 108>>

\* "charset"
ParamCharset ==
    <<99, 104, 97, 114, 115, 101, 116>>

\* "utf-8"
ValueUtf8 ==
    <<117, 116, 102, 45, 56>>

\* "X-Alpha"
NameXAlpha ==
    <<88, 45, 65, 108, 112, 104, 97>>

\* "X-Beta"
NameXBeta ==
    <<88, 45, 66, 101, 116, 97>>

\* "one"
ValueOne ==
    <<111, 110, 101>>

\* The values of each field of the responses marshal is applied to.
PragmaChoices ==
    {[Flags |-> EmptyMap, Options |-> EmptyMap],
     [Flags |-> MapPut(EmptyMap, DirectiveNoCache, TRUE), Options |-> EmptyMap],
     [Flags   |-> MapPut(EmptyMap, DirectiveNoCache, TRUE),
      Options |-> MapPut(EmptyMap, DirectiveMaxAge, ValueSixty)]}

LocationChoices ==
    {[nil |-> TRUE],
     [nil |-> FALSE, uri |-> [Scheme |-> SchemeHttp, Path |-> PathExample]]}

ServerChoices ==
    {[comments |-> <<>>, products |-> <<>>],
     [comments |-> <<CommentBuild>>,
      products |-> <<[Product |-> ProductGo, Version |-> VersionOne]>>]}

ChallengeChoices ==
    {[scheme |-> <<>>, realm |-> <<>>, params |-> EmptyMap],
     [scheme |-> SchemeBasic, realm |-> RealmQuoted, params |-> EmptyMap]}

AllowChoices ==
    {[methods |-> <<>>], [methods |-> <<MethodGet, MethodHead>>]}

ContentTypeChoices ==
    {[Type |-> <<>>, Subtype |-> <<>>, Parameters |-> EmptyMap],
     [Type |-> TypeText, Subtype |-> SubtypeHtml,
      Parameters |-> MapPut(EmptyMap, ParamCharset, ValueUtf8)]}

UnrecognizedChoices ==
    {EmptyMap,
     MapPut(EmptyMap, NameXBeta, ValueOne),
     MapPut(MapPut(EmptyMap, NameXBeta, ValueOne), NameXAlpha, <<>>)}

\* A body and the Content-Length beside it: what SetBody leaves, and what
\* is left once a body that was set has been emptied.
BodyChoices ==
    {[body |-> BodyNone, contentLength |-> 0],
     [body |-> BodyHello, contentLength |-> Len(BodyHello)],
     [body |-> BodyNone, contentLength |-> Len(BodyHello)]}

TimeChoices == {ZeroTime, TimeAt(784111777, "GMT")}

MarshalInputs ==
    {[code    |-> c,
      headers |-> [date            |-> d,
                   pragma          |-> p,
                   location        |-> l,
                   server          |-> s,
                   wwwAuthenticate |-> w,
                   allow           |-> a,
                   contentEncoding |-> ce,
                   contentLength   |-> b.contentLength,
                   contentType     |-> ct,
                   expires         |-> ZeroTime,
                   lastModified    |-> lm,
                   unrecognized    |-> u],
      body    |-> b.body] :
        c \in {StatusOK, StatusNotFound}, d \in TimeChoices,
        p \in PragmaChoices, l \in LocationChoices, s \in ServerChoices,
        w \in ChallengeChoices, a \in AllowChoices,
        ce \in {<<>>, ContentEncodingGZip}, b \in BodyChoices,
        ct \in ContentTypeChoices, lm \in TimeChoices,
        u \in UnrecognizedChoices}

InitMarshal ==
    /\ arg \in MarshalInputs
    /\ res = [fn |-> "none"]
    /\ srv = ServerIdle
    /\ conns = <<>>
    /\ panicked = FALSE
    /\ rw = NoWriter

\* response.marshal on the response value arg
Marshal ==
    /\ res.fn = "none"
    /\ res' = [fn |-> "marshal", out |-> responseMarshal(arg)]
    /\ UNCHANGED <<rw, srv, conns, panicked, arg>>

NextMarshal == Marshal

SpecMarshal == InitMarshal /\ [][NextMarshal]_vars

-----------------------------------------------------------------------------
(* Claims about the written response                                       *)

\* The lines of s, CRLF being the line end.
RECURSIVE CrlfLines(_)
CrlfLines(s) ==
    IF Index(s, Crlf) = -1 THEN <<s>>
    ELSE <<Slice(s, 0, Index(s, Crlf))>>
         \o CrlfLines(SliceFrom(s, Index(s, Crlf) + Len(Crlf)))

\* Where the blank line of the written bytes w begins (the CRLF that ends
\* the last line before it), the header lines before it, and the bytes
\* after it.
BlankLineAt(w) == Index(w, Crlf \o Crlf)

WrittenHeaderLines(w) == Tail(CrlfLines(Slice(w, 0, BlankLineAt(w))))

WrittenBody(w) == SliceFrom(w, BlankLineAt(w) + 2 * Len(Crlf))

\* The header lines of w whose name is name.
LinesNamed(w, name) ==
    {k \in 1..Len(WrittenHeaderLines(w)) :
        HasPrefix(WrittenHeaderLines(w)[k], name \o <<58, SP>>)}

\* w carries the header "name: value" exactly once.
HasHeaderOnce(w, name, value) ==
    /\ Cardinality(LinesNamed(w, name)) = 1
    /\ \A k \in LinesNamed(w, name) :
           WrittenHeaderLines(w)[k] = name \o <<58, SP>> \o value

\* A 200 response to a request other than HEAD has been written after the
\* handler called SetBody.
WrittenOkWithBody ==
    /\ rw.pc = "written"
    /\ rw.bodySet
    /\ rw.response.code = StatusOK
    /\ rw.method # MethodHead

\* The encoded form of the body b the handler set, under the
\* Content-Encoding the writer declares.
EncodedFormOfBody ==
    encodeRequestBody(rw.b, rw.response.headers.contentEncoding).body

WrittenHeadOrNotModified ==
    /\ rw.pc = "written"
    /\ rw.bodySet
    /\ \/ rw.method = MethodHead
       \/ rw.response.code = StatusNotModified

\* C12: for a HEAD request or a 304 status the written body is empty while
\* the Content-Length the writer set is retained: the written bytes end at
\* the blank line and still contain "Content-Length: len(b)".
C12_HeadKeepsContentLength ==
    WrittenHeadOrNotModified =>
        /\ WrittenBody(rw.written) = <<>>
        /\ rw.response.headers.contentLength = Len(rw.b)
        /\ \E k \in LinesNamed(rw.written, HContentLength) :
               WrittenHeaderLines(rw.written)[k]
                   = HContentLength \o <<58, SP>> \o Itoa(Len(rw.b))

\* The codes with a reason phrase.
RegisteredCodes ==
    {StatusOK, StatusCreated, StatusAccepted, StatusNoContent,
     StatusMovedPermanently, StatusMovedTemporarily, StatusNotModified,
     StatusBadRequest, StatusUnauthorized, StatusForbidden, StatusNotFound,
     StatusInternalServerError, StatusNotImplemented, StatusBadGateway,
     StatusServiceUnavailable}

\* C14: SetStatus(c) succeeds exactly for the registered codes and leaves
\* the status as it was when it fails; so whatever calls the handler made
\* on the writer it was given, the status is a registered code, and the
\* status line written has a reason phrase.
C14_StatusAlwaysRegistered ==
    /\ rw.pc # "unused" =>
           /\ rw.last.fn = "SetStatus" =>
                  /\ rw.last.ok <=> rw.last.c \in RegisteredCodes
                  /\ ~rw.last.ok => rw.response.code = rw.last.before
           /\ rw.response.code \in RegisteredCodes
    /\ rw.pc = "written" =>
           /\ StatusText(rw.response.code) # <<>>
           /\ HasPrefix(rw.written, codeMarshal(rw.response.code))

\* C15: after Unauthorized(scheme, realm) the response has status 401 and a
\* WWW-Authenticate challenge whose scheme is a valid token and whose realm
\* is a quoted-string, the realm given wrapped in double quotes when it was
\* bare and kept when it was quoted; no call to Unauthorized leaves a 401
\* response without a challenge.
C15_UnauthorizedHasChallenge ==
    (rw.pc # "unused" /\ rw.last.fn = "Unauthorized") =>
        /\ rw.response.code = StatusUnauthorized
        /\ ValidateToken(rw.response.headers.wwwAuthenticate.scheme)
        /\ validateQuotedString(rw.response.headers.wwwAuthenticate.realm)
        /\ rw.response.headers.wwwAuthenticate.scheme = rw.last.scheme
        /\ rw.response.headers.wwwAuthenticate.realm
               \in {rw.last.realm, <<34>> \o rw.last.realm \o <<34>>}
        /\ challengeMarshal(rw.response.headers.wwwAuthenticate) # <<>>

-----------------------------------------------------------------------------
(* Claims about response.marshal                                           *)

\* The recognized headers in the order of the claim, each with the value
\* its field marshals to (none for a nil Location).
RecognizedInOrder(h) ==
    << <<HDate, messageTimeMarshal(h.date)>>,
       <<HPragma, pragmaMarshal(h.pragma)>>,
       <<HLocation, IF h.location.nil THEN <<>>
                    ELSE absoluteUriMarshal(h.location.uri)>>,
       <<HServer, serverMarshal(h.server)>>,
       <<HWwwAuthenticate, challengeMarshal(h.wwwAuthenticate)>>,
       <<HAllow, methodsMarshal(h.allow)>>,
       <<HContentEncoding, contentEncodingMarshal(h.contentEncoding)>>,
       <<HContentLength, contentLengthMarshal(h.contentLength)>>,
       <<HContentType, contentTypeMarshal(h.contentType)>>,
       <<HExpires, messageTimeMarshal(h.expires)>>,
       <<HLastModified, messageTimeMarshal(h.lastModified)>> >>

\* The same without a value for Content-Length when there is no body.
RecognizedGivenBody(r) ==
    [RecognizedInOrder(r.headers) EXCEPT
        ![8] = IF Len(r.body) = 0 THEN <<HContentLength, <<>>>> ELSE @]

\* One line "name: value" for each pair whose value is not empty.
RECURSIVE LinesOfNonEmpty(_)
LinesOfNonEmpty(pairs) ==
    IF Len(pairs) = 0 THEN <<>>
    ELSE (IF Len(pairs[1][2]) = 0 THEN <<>>
          ELSE <<pairs[1][1] \o <<58, SP>> \o pairs[1][2]>>)
         \o LinesOfNonEmpty(Tail(pairs))

\* lines are one "name: value" line for each entry of the map m, the names
\* ascending.
IsAscendingLinesOf(lines, m) ==
    /\ Len(lines) = Cardinality(DOMAIN m)
    /\ \E names \in [1..Len(lines) -> DOMAIN m] :
           /\ \A j, k \in 1..Len(lines) : j < k => StringLess(names[j], names[k])
           /\ \A k \in 1..Len(lines) :
                  lines[k] = names[k] \o <<58, SP>> \o m[names[k]]

\* out, whose header lines are lines, is laid out as: status line, the
\* lines of recognized, the unrecognized headers of r in ascending name
\* order, a blank line, the body of r.
LaidOut(out, lines, r, recognized) ==
    /\ HasPrefix(out, codeMarshal(r.code))
    /\ Len(lines) >= Len(recognized)
    /\ SubSeq(lines, 1, Len(recognized)) = recognized
    /\ IsAscendingLinesOf(SubSeq(lines, Len(recognized) + 1, Len(lines)),
                          r.headers.unrecognized)
    /\ WrittenBody(out) = r.body

-----------------------------------------------------------------------------
(* SpecUri: the URI parsers applied to byte strings                        *)

MaxUriBytes == 4

\* '/', '%', '2', '5', '0', ';', '?', ':' and '#'
UriBytes == {ByteSeparator, 37, 50, 53, 48, ByteParam, ByteQuery, 58, 35}

UriInputs == SeqsUpTo(UriBytes, MaxUriBytes)

InitUri ==
    /\ arg \in UriInputs
    /\ res = [fn |-> "none"]
    /\ srv = ServerIdle
    /\ conns = <<>>
    /\ panicked = FALSE
    /\ rw = NoWriter

\* What parseRelativeUri returned for arg, and what it returns for the
\* bytes its result marshals to.
relativeUriAndBack(r) ==
    [fn |-> "parseRelativeUri", out |-> r,
     marshaled |-> relativeUriMarshal(r.uri),
     back |-> parseRelativeUri(relativeUriMarshal(r.uri))]

ParseRelativeUri ==
    /\ res.fn = "none"
    /\ res' = relativeUriAndBack(parseRelativeUri(arg))
    /\ UNCHANGED <<rw, srv, conns, panicked, arg>>

ParseAbsoluteUri ==
    /\ res.fn = "none"
    /\ res' = [fn |-> "parseAbsoluteUri", out |-> parseAbsoluteUri(arg)]
    /\ UNCHANGED <<rw, srv, conns, panicked, arg>>

\* A Referer header with the value arg is set.
SetReferer ==
    /\ res.fn = "none"
    /\ res' = [fn |-> "setReferer", out |-> setReferer(arg)]
    /\ UNCHANGED <<rw, srv, conns, panicked, arg>>

SafeUriParse ==
    /\ res.fn = "none"
    /\ res' = [fn |-> "safeUriParser.parse", out |-> safeUriParse(arg)]
    /\ UNCHANGED <<rw, srv, conns, panicked, arg>>

NextUri == ParseRelativeUri \/ ParseAbsoluteUri \/ SetReferer \/ SafeUriParse

SpecUri == InitUri /\ [][NextUri]_vars

-----------------------------------------------------------------------------
(* Claims about the URI parsers                                            *)

\* C16: when parseRelativeUri accepts a byte sequence of the form abs_path
\* and returns u, parseRelativeUri(u.marshal()) succeeds and returns the
\* Path, Params and Query of u.
C16_MarshalRoundTrip ==
    (/\ res.fn = "parseRelativeUri"
     /\ res.out.err = "nil"
     /\ getPathForm(res.out.uri) = AbsPath) =>
        /\ res.back.err = "nil"
        /\ res.back.uri.Path = res.out.uri.Path
        /\ res.back.uri.Params = res.out.uri.Params
        /\ res.back.uri.Query = res.out.uri.Query

\* Every byte of s is in the set class.
AllIn(s, class) == \A k \in 1..Len(s) : s[k] \in class

PCharBytes == {b \in 0..255 : IsPChar(b)}

QueryBytes == {b \in 0..255 : IsReserved(b) \/ IsUnreserved(b)}

UnsafeBytes == {b \in 0..255 : IsUnsafe(b)}

\* C17: in every URI parseRelativeUri or parseAbsoluteUri accepts, each
\* byte of the result, literal or decoded from %HH, is of the class of its
\* component (PCHAR in a path segment, PCHAR or '/' in a parameter,
\* RESERVED or UNRESERVED in the query and in the path of an absolute
\* URI), and none is a control character, a space or another UNSAFE byte.
C17_DecodedBytesInClass ==
    /\ (res.fn = "parseRelativeUri" /\ res.out.err = "nil") =>
           /\ AllIn(res.out.uri.Path, PCharBytes \cup {ByteSeparator})
           /\ \A k \in 1..Len(res.out.uri.Params) :
                  AllIn(res.out.uri.Params[k], PCharBytes \cup {ByteSeparator})
           /\ AllIn(res.out.uri.Query, QueryBytes)
           /\ AllIn(res.out.uri.Path, (0..255) \ UnsafeBytes)
           /\ \A k \in 1..Len(res.out.uri.Params) :
                  AllIn(res.out.uri.Params[k], (0..255) \ UnsafeBytes)
           /\ AllIn(res.out.uri.Query, (0..255) \ UnsafeBytes)
    /\ (res.fn = "parseAbsoluteUri" /\ res.out.ok) =>
           /\ AllIn(res.out.uri.Path, QueryBytes)
           /\ AllIn(res.out.uri.Path, (0..255) \ UnsafeBytes)

\* The bytes s stands for once each %HH is decoded, when every escape of s
\* is complete.
RECURSIVE Decoded(_, _)
Decoded(s, i) ==
    IF i >= Len(s) THEN <<>>
    ELSE IF IsEscape(At(s, i)) /\ unescapeSequence(s, i).ok
    THEN <<unescapeSequence(s, i).b>> \o Decoded(s, i + 3)
    ELSE <<At(s, i)>> \o Decoded(s, i + 1)

\* C18: a Referer value is accepted only if none of its bytes, once
\* percent-decoded, is UNSAFE other than '#'; one with a literal '#' (and
\* nothing else that is UNSAFE or malformed) is accepted, and one with an
\* escaped control character, space, '<', '>' or '"' is rejected.
C18_RefererSafeUri ==
    res.fn = "setReferer" =>
        /\ res.out.ok => AllIn(Decoded(arg, 0), ((0..255) \ UnsafeBytes) \cup {35})
        /\ (/\ 35 \in Range(arg)
            /\ AllIn(arg, ((0..255) \ UnsafeBytes) \cup {35}))
               => res.out.ok
        /\ (\E i \in 0..(Len(arg) - 3) :
               /\ IsEscape(At(arg, i))
               /\ unescapeSequence(arg, i).ok
               /\ unescapeSequence(arg, i).b \in {0, 2, 5, 32, 34})
               => ~res.out.ok

-----------------------------------------------------------------------------
(* SpecVersion: parseVersion applied to the last part of a request line    *)

MaxVersionBytes == 4

\* '0', '1', '.', '+' and '-'
VersionBytes == {48, 49, 46, 43, 45}

\* "HTTX"
ProtocolOther == <<72, 84, 84, 88>>

VersionInputs ==
    {name \o <<ByteSeparator>> \o v :
        name \in {ProtocolName, ProtocolOther},
        v \in SeqsUpTo(VersionBytes, MaxVersionBytes)}

InitVersion ==
    /\ arg \in VersionInputs
    /\ res = [fn |-> "none"]
    /\ srv = ServerIdle
    /\ conns = <<>>
    /\ panicked = FALSE
    /\ rw = NoWriter

ParseVersion ==
    /\ res.fn = "none"
    /\ res' = [fn |-> "parseVersion", out |-> parseVersion(arg)]
    /\ UNCHANGED <<rw, srv, conns, panicked, arg>>

NextVersion == ParseVersion

SpecVersion == InitVersion /\ [][NextVersion]_vars

-----------------------------------------------------------------------------
(* Claims about parseVersion                                               *)

DigitBytes == 48..57

\* s is a non-empty string of decimal digits.
IsDigits(s) == Len(s) > 0 /\ AllIn(s, DigitBytes)

\* data is "HTTP/" major "." minor, major and minor being non-empty strings
\* of decimal digits and major standing for a number that is at least 1.
IsVersionForm(data) ==
    /\ HasPrefix(data, ProtocolName \o <<ByteSeparator>>)
    /\ \E dot \in 6..Len(data) :
           /\ data[dot] = 46
           /\ IsDigits(SubSeq(data, 6, dot - 1))
           /\ IsDigits(SubSeq(data, dot + 1, Len(data)))
           /\ \E k \in 6..(dot - 1) : data[k] # 48

\* C19: parseVersion accepts a string only if it is "HTTP/" major "." minor
\* with major and minor non-empty strings of decimal digits and major at
\* least 1, and then returns "major.minor"; a major number that is 0, is
\* negative or carries a sign is rejected.
C19_VersionDigitsOnly ==
    (res.fn = "parseVersion" /\ res.out.ok) =>
        /\ IsVersionForm(arg)
        /\ res.out.version = SliceFrom(arg, Len(ProtocolName) + 1)

-----------------------------------------------------------------------------
(* internal/rules: Extract, and the list-valued headers of parse.go        *)

\* The loop of Extract over parts, from the i-th on.
RECURSIVE extractLoop(_, _)
extractLoop(parts, i) ==
    IF i > Len(parts) THEN <<>>
    ELSE IF i = Len(parts) THEN <<TrimLeft(parts[i])>>
    ELSE <<Trim(parts[i])>> \o extractLoop(parts, i + 1)

\* Extractor(e).Extract()
Extract(e) == extractLoop(Split(e, 44), 1)

\* The loop of setAllow: every rule is a token.
allowLoop(rules) == \A k \in 1..Len(rules) : ValidateToken(rules[k])

\* RequestHeaders.setAllow(data): whether it returns nil, and rh.Allow
\* after it.
setAllow(data) ==
    IF Len(Extract(data)) = 0 \/ ~allowLoop(Extract(data))
    THEN [ok |-> FALSE, Allow |-> <<>>]
    ELSE [ok |-> TRUE, Allow |-> Extract(data)]

\* One turn of the loop of parsePragmaDirectives: part was split at the
\* first '=' into values.
pragmaDirective(r, part, values) ==
    IF ~r.ok THEN r
    ELSE IF ~ValidateToken(values[1]) THEN [r EXCEPT !.ok = FALSE]
    ELSE IF Len(values) = 2
    THEN IF values[1] = DirectiveNoCache THEN [r EXCEPT !.ok = FALSE]
         ELSE IF ~ParseWord(values[2]).ok THEN [r EXCEPT !.ok = FALSE]
         ELSE [r EXCEPT !.directives.Options =
                            MapPut(@, values[1], ParseWord(values[2]).s)]
    ELSE [r EXCEPT !.directives.Flags = MapPut(@, part, TRUE)]

\* The loop of parsePragmaDirectives over parts, from the i-th on.
RECURSIVE pragmaLoop(_, _, _)
pragmaLoop(parts, i, r) ==
    IF i > Len(parts) \/ ~r.ok THEN r
    ELSE pragmaLoop(parts, i + 1,
                    pragmaDirective(r, parts[i], SplitN2(parts[i], 61)))

\* parsePragmaDirectives(data)
parsePragmaDirectives(data) ==
    IF Len(Extract(data)) = 0
    THEN [ok |-> FALSE, directives |-> [Flags |-> EmptyMap, Options |-> EmptyMap]]
    ELSE pragmaLoop(Extract(data), 1,
                    [ok |-> TRUE,
                     directives |-> [Flags |-> EmptyMap, Options |-> EmptyMap]])

-----------------------------------------------------------------------------
(* SpecList: the list-valued headers applied to lists with and without LWS *)

MaxElements == 2

\* "a=b"
DirectiveOption == <<97, 61, 98>>

ListElements == {MethodGet, MethodHead, DirectiveNoCache, DirectiveOption}

\* No LWS, a space, and a folded line.
LwsChoices == {<<>>, <<SP>>, <<CR, LF, HT>>}

\* The elements each between the LWS of before and after, joined by ','.
RECURSIVE Padded(_, _, _, _)
Padded(elems, before, after, i) ==
    IF i > Len(elems) THEN <<>>
    ELSE (IF i > 1 THEN <<44>> ELSE <<>>)
         \o before[i] \o elems[i] \o after[i]
         \o Padded(elems, before, after, i + 1)

\* A list, and the LWS added before and after each of its elements.
ListInputs ==
    UNION {[elems  : [1..n -> ListElements],
            before : [1..n -> LwsChoices],
            after  : [1..n -> LwsChoices]] : n \in 1..MaxElements}

InitList ==
    /\ arg \in ListInputs
    /\ res = [fn |-> "none"]
    /\ srv = ServerIdle
    /\ conns = <<>>
    /\ panicked = FALSE
    /\ rw = NoWriter

\* An Allow header is set, once with the plain list and once with the LWS
\* added.
SetAllow ==
    /\ res.fn = "none"
    /\ res' = [fn     |-> "setAllow",
               plain  |-> setAllow(Join(arg.elems, <<44>>)),
               padded |-> setAllow(Padded(arg.elems, arg.before, arg.after, 1))]
    /\ UNCHANGED <<rw, srv, conns, panicked, arg>>

\* The same for a Pragma header.
ParsePragmaDirectives ==
    /\ res.fn = "none"
    /\ res' = [fn     |-> "parsePragmaDirectives",
               plain  |-> parsePragmaDirectives(Join(arg.elems, <<44>>)),
               padded |-> parsePragmaDirectives(
                              Padded(arg.elems, arg.before, arg.after, 1))]
    /\ UNCHANGED <<rw, srv, conns, panicked, arg>>

NextList == SetAllow \/ ParsePragmaDirectives

SpecList == InitList /\ [][NextList]_vars

-----------------------------------------------------------------------------
(* Claims about the list-valued headers                                    *)

\* C20: LWS added before or after any element of an Allow or Pragma list,
\* the last element included, changes neither whether the value is
\* accepted nor the elements parsed from it.
C20_ListsTolerateLws ==
    res.fn \in {"setAllow", "parsePragmaDirectives"} =>
        /\ res.padded.ok = res.plain.ok
        /\ res.plain.ok => res.padded = res.plain

-----------------------------------------------------------------------------
(* SpecBytes: the byte classes and ValidateToken applied to every octet    *)

Octets == 0..255

InitBytes ==
    /\ arg \in Octets
    /\ res = [fn |-> "none"]
    /\ srv = ServerIdle
    /\ conns = <<>>
    /\ panicked = FALSE
    /\ rw = NoWriter

\* The predicates of HttpByte(arg).
Classify ==
    /\ res.fn = "none"
    /\ res' = [fn         |-> "HttpByte",
               pchar      |-> IsPChar(arg),
               unreserved |-> IsUnreserved(arg),
               reserved   |-> IsReserved(arg),
               unsafe     |-> IsUnsafe(arg),
               tspecial   |-> IsTSpecial(arg),
               control    |-> IsControl(arg),
               usascii    |-> IsUSAscii(arg)]
    /\ UNCHANGED <<rw, srv, conns, panicked, arg>>

\* ValidateToken on the string of the one byte arg, beside the classes that
\* decide it.
ValidateTokenByte ==
    /\ res.fn = "none"
    /\ res' = [fn       |-> "ValidateToken",
               ok       |-> ValidateToken(<<arg>>),
               pchar    |-> IsPChar(arg),
               tspecial |-> IsTSpecial(arg),
               control  |-> IsControl(arg),
               usascii  |-> IsUSAscii(arg)]
    /\ UNCHANGED <<rw, srv, conns, panicked, arg>>

NextBytes == Classify \/ ValidateTokenByte

SpecBytes == InitBytes /\ [][NextBytes]_vars

-----------------------------------------------------------------------------
(* Claims about the byte classes                                           *)

\* C21 as stated: every octet that is PCHAR and not TSPECIAL is a valid
\* token byte: US-ASCII, not CTL, not TSPECIAL, and accepted by
\* ValidateToken as a one-byte string.
C21_PCharNotTSpecialIsToken ==
    (res.fn = "ValidateToken" /\ res.pchar /\ ~res.tspecial) =>
        /\ res.usascii
        /\ ~res.control
        /\ res.ok

\* C21 amended: the same for every US-ASCII octet (below 128).
C21_AsciiPCharNotTSpecialIsToken ==
    (res.fn = "ValidateToken" /\ res.pchar /\ ~res.tspecial /\ arg < 128) =>
        /\ res.usascii
        /\ ~res.control
        /\ res.ok

C21_Witness ==
    /\ res.fn = "ValidateToken"
    /\ arg = 97
    /\ res.pchar
    /\ ~res.tspecial
    /\ res.ok

\* C22: an octet is PCHAR exactly when it is UNRESERVED or one of ':', '@',
\* '&', '=', '.', UNRESERVED being ALPHA, DIGIT, SAFE, EXTRA or any octet
\* that is neither RESERVED nor UNSAFE.
C22_PCharClass ==
    res.fn = "HttpByte" =>
        /\ res.unreserved <=>
               \/ IsAlpha(arg) \/ IsNumeric(arg) \/ IsSafe(arg) \/ IsExtra(arg)
               \/ (~res.reserved /\ ~res.unsafe)
        /\ res.pchar <=> (res.unreserved \/ arg \in {58, 64, 38, 61, 46})

-----------------------------------------------------------------------------
(* SpecLws: Check, NewLine and the trims applied to strings and indices    *)

MaxLwsLen == 4

\* SP, HT, CR, LF and 'a'
LwsBytes == {SP, HT, CR, LF, 97}

LwsInputs ==
    [s : SeqsUpTo(LwsBytes, MaxLwsLen), i : 0..(MaxLwsLen + 1)]

InitLws ==
    /\ arg \in LwsInputs
    /\ res = [fn |-> "none"]
    /\ srv = ServerIdle
    /\ conns = <<>>
    /\ panicked = FALSE
    /\ rw = NoWriter

CheckAt ==
    /\ res.fn = "none"
    /\ res' = [fn |-> "Check", out |-> Check(arg.s, arg.i)]
    /\ UNCHANGED <<rw, srv, conns, panicked, arg>>

NewLineAt ==
    /\ res.fn = "none"
    /\ res' = [fn |-> "NewLine", out |-> NewLine(arg.s, arg.i)]
    /\ UNCHANGED <<rw, srv, conns, panicked, arg>>

\* The three trims of arg.s, and the trims of what TrimLeft returned.
TrimString ==
    /\ res.fn = "none"
    /\ arg.i = 0
    /\ res' = [fn          |-> "Trim",
               left        |-> TrimLeft(arg.s),
               right       |-> TrimRight(arg.s),
               both        |-> Trim(arg.s),
               leftOfLeft  |-> TrimLeft(TrimLeft(arg.s)),
               rightOfLeft |-> TrimRight(TrimLeft(arg.s))]
    /\ UNCHANGED <<rw, srv, conns, panicked, arg>>

NextLws == CheckAt \/ NewLineAt \/ TrimString

SpecLws == InitLws /\ [][NextLws]_vars

-----------------------------------------------------------------------------
(* Claims about the LWS scanner                                            *)

SpHt == {SP, HT}

\* B has CR, LF and then SP or HT at index i.
FoldAt(B, i) ==
    /\ i >= 0
    /\ i + 2 < Len(B)
    /\ At(B, i) = CR
    /\ At(B, i + 1) = LF
    /\ At(B, i + 2) \in SpHt

\* An LWS sequence begins at index i of B.
LwsBeginsAt(B, i) ==
    \/ (i >= 0 /\ i < Len(B) /\ At(B, i) \in SpHt)
    \/ FoldAt(B, i)

\* The first index at or after j that does not hold SP or HT.
RunEnd(B, j) ==
    CHOOSE k \in j..Len(B) :
        /\ \A m \in j..(k - 1) : At(B, m) \in SpHt
        /\ k < Len(B) => At(B, k) \notin SpHt

\* C23: Check(B, i) matches exactly when an LWS sequence begins at i, and
\* then returns the first index past the maximal run of SP/HT; unmatched,
\* also for i at or past the end of B, it returns (false, i).
C23_CheckMatchesLws ==
    res.fn = "Check" =>
        /\ res.out.isLws <=> LwsBeginsAt(arg.s, arg.i)
        /\ res.out.isLws =>
               res.out.next = RunEnd(arg.s, IF FoldAt(arg.s, arg.i)
                                             THEN arg.i + 2 ELSE arg.i)
        /\ ~res.out.isLws => res.out.next = arg.i

C23_Witness ==
    /\ res.fn = "Check"
    /\ FoldAt(arg.s, arg.i)
    /\ arg.i = 0
    /\ res.out = [isLws |-> TRUE, next |-> 4]

\* C24 as stated: NewLine(B, i) matches exactly when B[i], B[i+1] are CR,
\* LF and B[i+2] is SP or HT, and then returns start = i+2, the index of
\* the first SP/HT after the CRLF, and end = the index past the run of
\* SP/HT; unmatched it returns (false, i, i).
C24_NewLineStartsAtFirstSpace ==
    res.fn = "NewLine" =>
        /\ res.out.isLws <=> FoldAt(arg.s, arg.i)
        /\ res.out.isLws =>
               /\ res.out.start = arg.i + 2
               /\ res.out.end = RunEnd(arg.s, arg.i + 2)
        /\ ~res.out.isLws => (res.out.start = arg.i /\ res.out.end = arg.i)

\* C24 amended: the same with start = i+3, the index just past the first
\* SP/HT after the CRLF.
C24_NewLineStartsPastFirstSpace ==
    res.fn = "NewLine" =>
        /\ res.out.isLws <=> FoldAt(arg.s, arg.i)
        /\ res.out.isLws =>
               /\ res.out.start = arg.i + 3
               /\ res.out.end = RunEnd(arg.s, arg.i + 2)
        /\ ~res.out.isLws => (res.out.start = arg.i /\ res.out.end = arg.i)

C24_Witness ==
    /\ res.fn = "NewLine"
    /\ arg.i = 0
    /\ arg.s = <<CR, LF, SP, HT>>
    /\ res.out = [isLws |-> TRUE, start |-> 3, end |-> 4]

\* An LWS sequence occurs somewhere in s.
HasLws(s) == \E i \in 0..(Len(s) - 1) : LwsBeginsAt(s, i)

\* The indices of s where a CRLF begins that no SP or HT follows.
BareCrlfs(s) ==
    {p \in 0..(Len(s) - 2) :
        /\ At(s, p) = CR
        /\ At(s, p + 1) = LF
        /\ ~FoldAt(s, p)}

\* C25: TrimRight(TrimLeft(s)) = Trim(s); TrimLeft is idempotent; Trim
\* leaves a string without LWS as it is; and no trim removes a CRLF that is
\* not followed by SP or HT (what TrimLeft cuts ends at or before it, what
\* TrimRight cuts begins after it).
C25_TrimLaws ==
    res.fn = "Trim" =>
        /\ res.rightOfLeft = res.both
        /\ res.leftOfLeft = res.left
        /\ ~HasLws(arg.s) => res.both = arg.s
        /\ \A p \in BareCrlfs(arg.s) :
               /\ Len(arg.s) - Len(res.left) <= p
               /\ Len(res.right) >= p + 2
               /\ Len(arg.s) - Len(res.left) + Len(res.both) >= p + 2

C25_Witness ==
    /\ res.fn = "Trim"
    /\ arg.s = <<SP, 97, CR, LF>>
    /\ res.both = <<97, CR, LF>>
    /\ res.right = arg.s

-----------------------------------------------------------------------------
(* internal/constructs: ValidateComment                                    *)

\* The loop of ValidateComment from the k-th byte on, score being the
\* count of '(' less that of ')' so far: whether the score never falls
\* below zero and ends at zero.  (The bytes of the model are US-ASCII, so
\* each rune of the range loop is one byte.)
RECURSIVE commentScore(_, _, _)
commentScore(c, k, score) ==
    IF score < 0 THEN FALSE
    ELSE IF k > Len(c) THEN score = 0
    ELSE commentScore(c, k + 1,
                      IF c[k] = 40 THEN score + 1
                      ELSE IF c[k] = 41 THEN score - 1
                      ELSE score)

\* ValidateComment(c) = nil
ValidateComment(c) ==
    /\ Len(c) >= 2
    /\ At(c, 0) = 40
    /\ ValidateText(c)
    /\ commentScore(c, 1, 0)

-----------------------------------------------------------------------------
(* SpecComment: ValidateComment applied to strings                         *)

MaxCommentLen == 4

\* '(', ')', 'a', SP and the control character 0x01
CommentBytes == {40, 41, 97, SP, 1}

InitComment ==
    /\ arg \in SeqsUpTo(CommentBytes, MaxCommentLen)
    /\ res = [fn |-> "none"]
    /\ srv = ServerIdle
    /\ conns = <<>>
    /\ panicked = FALSE
    /\ rw = NoWriter

ValidateCommentOn ==
    /\ res.fn = "none"
    /\ res' = [fn |-> "ValidateComment", ok |-> ValidateComment(arg)]
    /\ UNCHANGED <<rw, srv, conns, panicked, arg>>

NextComment == ValidateCommentOn

SpecComment == InitComment /\ [][NextComment]_vars

-----------------------------------------------------------------------------
(* Claims about ValidateComment                                            *)

\* The parenthesis depth of c after its first k bytes.
Depth(c, k) ==
    Cardinality({j \in 1..k : c[j] = 40}) - Cardinality({j \in 1..k : c[j] = 41})

\* c is a single comment: it begins with '(' and ends with ')', the depth
\* first returns to zero at the last byte, and every position is LWS or a
\* byte that is not a control character.
IsSingleComment(c) ==
    /\ Len(c) >= 2
    /\ c[1] = 40
    /\ c[Len(c)] = 41
    /\ \A k \in 1..(Len(c) - 1) : Depth(c, k) > 0
    /\ Depth(c, Len(c)) = 0
    /\ \A k \in 1..Len(c) :
           IsControl(c[k]) => \E i \in 0..(k - 1) :
                                  /\ LwsBeginsAt(c, i)
                                  /\ k - 1 < Check(c, i).next

\* C26: ValidateComment accepts a string exactly when it is a single
\* comment.
C26_SingleComment ==
    res.fn = "ValidateComment" => (res.ok <=> IsSingleComment(arg))


-----------------------------------------------------------------------------
(* parse.go: the scanning loops of the header parser, one iteration at a   *)
(* time                                                                    *)

\* The state of a running call: the function, where it stands (pc), its
\* input data, the scan index i, and its other locals: start (start, or the
\* index i had at the head of the outer loop), n (nextCrlf, or score), end
\* (where the extracted comment or product token ends, or where the value
\* of a parameter begins), name (attribute), val (value), out (parts, the
\* comments and product tokens, or parameters) and skipped (the bytes the
\* "i++" after parameters[...] = value stepped over).  err is "none" while
\* it runs, then "nil" or "error"; "panic" is an index out of range.
Scan0(fn, data) ==
    [fn |-> fn, pc |-> "entry", data |-> data, i |-> 0, start |-> 0,
     n |-> 0, end |-> 0, name |-> <<>>, val |-> <<>>, out |-> <<>>,
     skipped |-> <<>>, err |-> "none"]

\* A return statement.
Returned(s, err) == [s EXCEPT !.pc = "done", !.err = err]

\* data[i] can be read; data[a:b] can be sliced.
InRange(data, i) == i >= 0 /\ i < Len(data)

SliceInRange(data, a, b) == 0 <= a /\ a <= b /\ b <= Len(data)

\* One pass through the loop of splitRequestHeaders (i is end), or the
\* statements before it, or the statements after it.
splitRequestHeadersStep(s) ==
    IF s.pc = "entry"
    THEN [s EXCEPT !.pc = "loop", !.start = 0,
                   !.n = Index(s.data, Crlf), !.i = Index(s.data, Crlf)]
    ELSE IF s.n = -1
    THEN IF ~SliceInRange(s.data, s.start, Len(s.data)) THEN Returned(s, "panic")
         ELSE IF Len(SliceFrom(s.data, s.start)) > 0
         THEN Returned([s EXCEPT !.out = Append(@, SliceFrom(s.data, s.start))], "nil")
         ELSE Returned(s, "nil")
    ELSE IF s.i < 0 THEN Returned(s, "panic")
    ELSE IF ~Check(s.data, s.i).isLws
    THEN IF ~SliceInRange(s.data, s.start, s.i)
            \/ ~SliceInRange(s.data, s.i + Len(Crlf), Len(s.data))
         THEN Returned(s, "panic")
         ELSE [s EXCEPT
                  !.out   = Append(@, Slice(s.data, s.start, s.i)),
                  !.start = s.i + Len(Crlf),
                  !.n     = Index(SliceFrom(s.data, s.i + Len(Crlf)), Crlf),
                  !.i     = s.i + Len(Crlf)
                            + Index(SliceFrom(s.data, s.i + Len(Crlf)), Crlf)]
    ELSE IF ~SliceInRange(s.data, s.i + Len(Crlf), Len(s.data))
    THEN Returned(s, "panic")
    ELSE [s EXCEPT
             !.n = Index(SliceFrom(s.data, s.i + Len(Crlf)), Crlf),
             !.i = s.i + Len(Crlf)
                   + Index(SliceFrom(s.data, s.i + Len(Crlf)), Crlf)]

\* validateHeaderValue as it would be if a byte that is no control
\* character were not stepped over.
validateHeaderValueStepStays(s) ==
    IF s.pc = "entry" THEN [s EXCEPT !.pc = "loop", !.i = 0]
    ELSE IF s.i >= Len(s.data) THEN Returned(s, "nil")
    ELSE IF Check(s.data, s.i).isLws
    THEN [s EXCEPT !.i = Check(s.data, s.i).next]
    ELSE IF IsControl(At(s.data, s.i)) THEN Returned(s, "error")
    ELSE s

\* One pass through the loop of validateHeaderValue.
validateHeaderValueStep(s) ==
    IF s.pc = "entry" THEN [s EXCEPT !.pc = "loop", !.i = 0]
    ELSE IF s.i >= Len(s.data) THEN Returned(s, "nil")
    ELSE IF Check(s.data, s.i).isLws
    THEN [s EXCEPT !.i = Check(s.data, s.i).next]
    ELSE IF ~InRange(s.data, s.i) THEN Returned(s, "panic")
    ELSE IF IsControl(At(s.data, s.i)) THEN Returned(s, "error")
    ELSE [s EXCEPT !.i = s.i + 1]

\* parseProductVersion(data) = nil
parseProductVersionOk(data) ==
    /\ Len(Split(data, ByteSeparator)) <= 2
    /\ \A k \in 1..Len(Split(data, ByteSeparator)) :
           ValidateToken(Split(data, ByteSeparator)[k])

\* extractComment(data, start), one pass through a loop at a time: the
\* loop over the comment ("comment"), then the loop over the LWS after it
\* ("commentLws") and the return into setUserAgent.
extractCommentStep(s) ==
    IF s.pc = "comment"
    THEN IF s.i < Len(s.data) /\ s.n > 0
         THEN [s EXCEPT
                  !.n = IF At(s.data, s.i) = 40 THEN s.n + 1
                        ELSE IF At(s.data, s.i) = 41 THEN s.n - 1 ELSE s.n,
                  !.i = s.i + 1]
         ELSE IF s.n > 0 THEN Returned(s, "error")
         ELSE IF ~SliceInRange(s.data, s.start, s.i) THEN Returned(s, "panic")
         ELSE [s EXCEPT !.pc = "commentLws", !.end = s.i]
    ELSE IF Check(s.data, s.i).isLws
    THEN [s EXCEPT !.i = Check(s.data, s.i).next]
    ELSE IF ~ValidateComment(Slice(s.data, s.start, s.end))
    THEN Returned(s, "error")
    ELSE [s EXCEPT !.pc = "loop",
                   !.out = Append(@, Slice(s.data, s.start, s.end))]

\* extractProductVersion(data, start), one pass through a loop at a time:
\* the loop over the token ("product"), then the loop over the LWS after
\* it ("productLws") and the return into setUserAgent.
extractProductVersionStep(s) ==
    IF s.pc = "product"
    THEN IF s.i < Len(s.data) /\ At(s.data, s.i) # 40
            /\ ~Check(s.data, s.i).isLws
         THEN [s EXCEPT !.i = s.i + 1]
         ELSE IF ~SliceInRange(s.data, s.start, s.i) THEN Returned(s, "panic")
         ELSE [s EXCEPT !.pc = "productLws", !.end = s.i]
    ELSE IF Check(s.data, s.i).isLws
    THEN [s EXCEPT !.i = Check(s.data, s.i).next]
    ELSE IF ~parseProductVersionOk(Slice(s.data, s.start, s.end))
    THEN Returned(s, "error")
    ELSE [s EXCEPT !.pc = "loop",
                   !.out = Append(@, Slice(s.data, s.start, s.end))]

\* setUserAgent: the statements before its loop, the head of the loop with
\* the call it makes, and the passes of the loops of the callee.
setUserAgentStep(s) ==
    IF s.pc = "entry"
    THEN [s EXCEPT !.pc = "loop", !.data = TrimLeft(s.data), !.i = 0]
    ELSE IF s.pc = "loop"
    THEN IF s.i >= Len(s.data) THEN Returned(s, "nil")
         ELSE IF ~InRange(s.data, s.i) THEN Returned(s, "panic")
         ELSE IF At(s.data, s.i) = 40
         THEN [s EXCEPT !.pc = "comment", !.start = s.i, !.n = 1,
                        !.i = s.i + 1]
         ELSE [s EXCEPT !.pc = "product", !.start = s.i]
    ELSE IF s.pc \in {"comment", "commentLws"} THEN extractCommentStep(s)
    ELSE extractProductVersionStep(s)

\* parameters[string(attribute)] = value; i++
parameterStored(s, value) ==
    [s EXCEPT !.pc = "loop",
              !.out = MapPut(@, s.name, value),
              !.skipped = IF s.i < Len(s.data)
                          THEN Append(@, At(s.data, s.i)) ELSE @,
              !.i = s.i + 1]

\* parseContentTypeParameters from the end of the attribute loop to the
\* start of a value loop.
attributeRead(s) ==
    IF ~ValidateToken(Slice(s.data, s.start, s.i)) THEN Returned(s, "error")
    ELSE IF s.i + 1 >= Len(s.data) THEN Returned(s, "error")
    ELSE IF ~InRange(s.data, s.i + 1) THEN Returned(s, "panic")
    ELSE IF At(s.data, s.i + 1) = 34
    THEN [s EXCEPT !.pc = "quoted", !.name = Slice(s.data, s.start, s.i),
                   !.end = s.i + 1, !.i = s.i + 2]
    ELSE [s EXCEPT !.pc = "token", !.name = Slice(s.data, s.start, s.i),
                   !.end = s.i + 1, !.i = s.i + 1]

\* parseContentTypeParameters from the end of the loop over a quoted value
\* to the loop over the LWS after it: v is the value read.
quotedRead(s, i, v) ==
    IF ~ParseQuotedString(v).ok THEN Returned(s, "error")
    ELSE [s EXCEPT !.pc = "quotedLws", !.val = ParseQuotedString(v).s,
                   !.i = i]

\* One pass through a loop of parseContentTypeParameters: the head of the
\* outer loop ("loop"), the loop over LWS ("lws"), over the attribute
\* ("attr"), over a quoted value ("quoted") and the LWS after it
\* ("quotedLws"), over a token value ("token").
parseContentTypeParametersStep(s) ==
    IF s.pc = "entry"
    THEN IF Len(s.data) = 0 THEN Returned(s, "error")
         ELSE [s EXCEPT !.pc = "loop", !.i = 0]
    ELSE IF s.pc = "loop"
    THEN IF s.i < Len(s.data) THEN [s EXCEPT !.pc = "lws", !.start = s.i]
         ELSE Returned(s, "nil")
    ELSE IF s.pc = "lws"
    THEN IF Check(s.data, s.i).isLws
         THEN [s EXCEPT !.i = Check(s.data, s.i).next]
         ELSE [s EXCEPT !.pc = "attr", !.start = s.i]
    ELSE IF s.pc = "attr"
    THEN IF s.i < Len(s.data) /\ At(s.data, s.i) # 61
         THEN [s EXCEPT !.i = s.i + 1]
         ELSE attributeRead(s)
    ELSE IF s.pc = "quoted"
    THEN IF s.i < Len(s.data) /\ At(s.data, s.i) # 34
         THEN [s EXCEPT !.i = s.i + 1]
         ELSE IF s.i < Len(s.data)
         THEN quotedRead(s, s.i + 1, Slice(s.data, s.end, s.i + 1))
         ELSE quotedRead(s, s.i, Slice(s.data, s.end, s.i))
    ELSE IF s.pc = "quotedLws"
    THEN IF Check(s.data, s.i).isLws
         THEN [s EXCEPT !.i = Check(s.data, s.i).next]
         ELSE parameterStored(s, s.val)
    ELSE IF s.i < Len(s.data) /\ At(s.data, s.i) # ByteParam
    THEN [s EXCEPT !.i = s.i + 1]
    ELSE IF ~ValidateToken(TrimRight(Slice(s.data, s.end, s.i)))
    THEN Returned(s, "error")
    ELSE parameterStored(s, TrimRight(Slice(s.data, s.end, s.i)))

-----------------------------------------------------------------------------
(* SpecScan: the scanning loops applied to header bytes, pass by pass      *)

MaxScanLen == 4

\* The bytes of the header blocks splitRequestHeaders is applied to.
SplitBytes == {CR, LF, SP, 97}

\* The bytes of the values validateHeaderValue is applied to.
ValueBytes == {CR, LF, SP, 97, 1}

\* The bytes of the User-Agent values.
UserAgentBytes == {40, 41, SP, 97, CR, LF}

\* The bytes of the parameter sections of a Content-Type.
ParameterBytes == {97, 61, 34, ByteParam, SP}

ScanInputs ==
    {Scan0("splitRequestHeaders", d) : d \in SeqsUpTo(SplitBytes, MaxScanLen)}
    \cup {Scan0("validateHeaderValue", d) : d \in SeqsUpTo(ValueBytes, MaxScanLen)}
    \cup {Scan0("setUserAgent", d) : d \in SeqsUpTo(UserAgentBytes, MaxScanLen)}
    \cup {Scan0("parseContentTypeParameters", d) :
             d \in SeqsUpTo(ParameterBytes, MaxScanLen)}

InitScan ==
    /\ res \in ScanInputs
    /\ arg = res.data
    /\ srv = ServerIdle
    /\ conns = <<>>
    /\ panicked = FALSE
    /\ rw = NoWriter

SplitRequestHeadersPass ==
    /\ res.fn = "splitRequestHeaders"
    /\ res.pc # "done"
    /\ res' = splitRequestHeadersStep(res)
    /\ panicked' = (res'.err = "panic")
    /\ UNCHANGED <<rw, srv, conns, arg>>

ValidateHeaderValuePass ==
    /\ res.fn = "validateHeaderValue"
    /\ res.pc # "done"
    /\ res' = validateHeaderValueStep(res)
    /\ panicked' = (res'.err = "panic")
    /\ UNCHANGED <<rw, srv, conns, arg>>

SetUserAgentPass ==
    /\ res.fn = "setUserAgent"
    /\ res.pc # "done"
    /\ res' = setUserAgentStep(res)
    /\ panicked' = (res'.err = "panic")
    /\ UNCHANGED <<rw, srv, conns, arg>>

ParseContentTypeParametersPass ==
    /\ res.fn = "parseContentTypeParameters"
    /\ res.pc # "done"
    /\ res' = parseContentTypeParametersStep(res)
    /\ panicked' = (res'.err = "panic")
    /\ UNCHANGED <<rw, srv, conns, arg>>

NextScan ==
    \/ SplitRequestHeadersPass
    \/ ValidateHeaderValuePass
    \/ SetUserAgentPass
    \/ ParseContentTypeParametersPass

SpecScan == InitScan /\ [][NextScan]_vars

\* The scheduler runs the goroutine that parses: a pass that can be taken
\* is taken.
SpecScanFair == SpecScan /\ WF_vars(NextScan)

-----------------------------------------------------------------------------
(* SpecParameters: parseContentTypeParameters applied to parameter         *)
(* sections, pass by pass                                                  *)

MaxParameterLen == 5

InitParameters ==
    /\ res \in {Scan0("parseContentTypeParameters", d) :
                    d \in SeqsUpTo(ParameterBytes, MaxParameterLen)}
    /\ arg = res.data
    /\ srv = ServerIdle
    /\ conns = <<>>
    /\ panicked = FALSE
    /\ rw = NoWriter

NextParameters == ParseContentTypeParametersPass

SpecParameters == InitParameters /\ [][NextParameters]_vars

-----------------------------------------------------------------------------
(* Claims about the scanning loops (SpecParameters, SpecScanFair)          *)

\* C29: parseContentTypeParameters accepts a parameter section only if
\* consecutive parameters are separated by ';': the byte it steps over
\* after a value (after a quoted-string value, past the LWS that follows
\* it) is ';', or the input has ended; no byte is stepped over unchecked.
C29_ParametersSeparated ==
    (/\ res.fn = "parseContentTypeParameters"
     /\ res.pc = "done"
     /\ res.err = "nil")
    => \A k \in 1..Len(res.skipped) : res.skipped[k] = ByteParam

\* A pass through a loop moves the scan index forward: a pass that stays in
\* the same loop, and a pass that comes back to the head of the outer loop
\* of setUserAgent or parseContentTypeParameters (start is at or past the
\* index that loop had at its head).
ScanAdvances ==
    /\ (res.pc = res'.pc /\ res.pc # "done") => res'.i > res.i
    /\ (res'.pc = "loop" /\ res.pc \notin {"loop", "entry"}) => res'.i > res.start

\* C30: on every input each loop of splitRequestHeaders,
\* validateHeaderValue, setUserAgent (with extractComment and
\* extractProductVersion) and parseContentTypeParameters moves its scan
\* index forward on every pass, never indexes past the end of its input,
\* and the call returns.
C30_ScansAdvanceAndReturn ==
    /\ [][ScanAdvances]_vars
    /\ [](res.err # "panic")
    /\ <>(res.pc = "done")

\* setUserAgent has returned nil after a product token and a comment.
C30_Witness ==
    /\ res.fn = "setUserAgent"
    /\ res.pc = "done"
    /\ res.err = "nil"
    /\ Len(res.out) = 2
    /\ res.i = Len(res.data)
=============================================================================
